---- MODULE Spec2Model ----
(***************************************************************************)
(* Model of the flotsync linear CRDT data layer.                           *)
(*                                                                         *)
(* LinearCore is VecLinearData (linear_data/vec_impl.rs): a Vec of nodes   *)
(* with left/right origins and a live counter.  A fixed set of replicas    *)
(* each own one VecLinearData; operations are generated against a          *)
(* replica's current table and handed to apply_operation on any replica.   *)
(*                                                                         *)
(* Indices are 1-based here (TLA+ sequences); the Rust Vec is 0-based.     *)
(***************************************************************************)
EXTENDS Integers, Sequences, FiniteSets, TLC

\* ------------------------------------------------------------------ bounds

\* Number of replicas that own a table.
NumReplicas == 2

\* Number of operations generated under Spec (inserts and deletes together).
MaxOps == 3

\* Number of inserts generated under SpecConv and SpecRetry.
MaxInserts == 4

\* Number of deletes generated under SpecConv.

MaxDeletes == 1

\* Number of register writes generated under SpecReg.
MaxWrites == 4

\* Number of list operations generated under SpecList.
MaxListOps == 3

\* Longest chunk a list insert carries.
MaxChunk == 2

\* Code points of the longest target string of a text diff.
MaxText == 2

\* Code points of the longest string a text starts from.
MaxInitialText == 1

\* Number of text diffs made under SpecText.
MaxDiffs == 2

\* Nodes of the longest snapshot stream read under SpecRead.
MaxStream == 3

\* ------------------------------------------------------------- identifiers

\* Option::None for an origin.
None == -1

\* TestIdGenerator starts at 0: the constructors take the first ids.
BeginId == 0

\* Ids handed out after the constructor ids (with_value consumes 0, 1, 2).
FirstOpId == 3

\* An id that no constructor and no generator ever hands out
\* (999, as in the tests).
UnknownId == 999

Replicas == 1..NumReplicas

\* The ids a generator hands out when it is asked for n ids, in any order.
IdPool(n) == FirstOpId..(FirstOpId + n - 1)

\* Payload carried by the write with a given id (3 -> 10, 4 -> 20, ... as in the tests).
ValueOf(id) == (id - 2) * 10

\* ------------------------------------------------------------------- nodes

NoValue == -1

Node(id, left, right, operation, value) ==
    [id |-> id, left_origin |-> left, right_origin |-> right,
     operation |-> operation, value |-> value]

\* VecLinearData::new: Beginning and End only, len = 0.
NewData ==
    [len |-> 0,
     nodes |-> << Node(0, None, 1, "Beginning", NoValue),
                  Node(1, 0, None, "End", NoValue) >>]

\* VecLinearData::with_value: Beginning, one Insert node, End, len = 1.
WithValue(initial_value) ==
    [len |-> 1,
     nodes |-> << Node(0, None, 1, "Beginning", NoValue),
                  Node(1, 0, 2, "Insert", initial_value),
                  Node(2, 1, None, "End", NoValue) >>]

\* DataOperation::Insert / DataOperation::Delete.
InsertOp(id, pred, succ, value) ==
    [type |-> "Insert", id |-> id, pred |-> pred, succ |-> succ, value |-> value,
     start |-> None, end |-> None]

DeleteOp(start, end) ==
    [type |-> "Delete", id |-> None, pred |-> None, succ |-> None, value |-> NoValue,
     start |-> start, end |-> end]

\* ----------------------------------------------------------------- helpers

\* A lookup that takes the last node for an id the table does not hold.
FindFromOrLast(ns, start, id) ==
    LET hits == {i \in start..Len(ns) : ns[i].id = id}
    IN IF hits = {} THEN Len(ns) ELSE CHOOSE i \in hits : \A j \in hits : i <= j

\* nodes.iter().enumerate().skip(start - 1).find(|n| n.id == id): index or 0.
FindFrom(ns, start, id) ==
    LET hits == {i \in start..Len(ns) : ns[i].id = id}
    IN IF hits = {} THEN 0 ELSE CHOOSE i \in hits : \A j \in hits : i <= j

IndexOfId(ns, id) == FindFrom(ns, 1, id)

\* An insert that lands one slot too far to the left.
VecInsertShifted(ns, index, node) ==
    SubSeq(ns, 1, index - 2) \o <<node>> \o SubSeq(ns, index - 1, Len(ns))

\* Vec::insert(index - 1, node).
VecInsert(ns, index, node) ==
    SubSeq(ns, 1, index - 1) \o <<node>> \o SubSeq(ns, index, Len(ns))

\* ends_in_right_tree: follow right_origin from `node` until `boundary` ("true"),
\* a None ("false"), or an origin without node ("panic": the expect fails).
\* `fuel` bounds the walk; running out of it is a walk that never ends ("hang").
RECURSIVE EndsInRightTreeFrom(_, _, _, _)
EndsInRightTreeFrom(ns, node, boundary, fuel) ==
    IF node.id = boundary THEN "true"
    ELSE IF node.right_origin = None THEN "false"
    ELSE LET j == IndexOfId(ns, node.right_origin)
         IN IF j = 0 THEN "panic"
            ELSE IF fuel = 0 THEN "hang"
            ELSE EndsInRightTreeFrom(ns, ns[j], boundary, fuel - 1)

EndsInRightTree(ns, node, boundary) ==
    EndsInRightTreeFrom(ns, node, boundary, Len(ns))

\* `range.find(|i| ends_in_right_tree(nodes[i], boundary))` over lo..hi:
\* the calls are made in order and stop at the first "true"; a call that
\* panics or hangs before that aborts the whole operation.
FirstInRightTree(ns, lo, hi, boundary) ==
    LET res(i) == EndsInRightTree(ns, ns[i], boundary)
        stop == {i \in lo..hi : res(i) # "false"}
    IN IF stop = {} THEN [abort |-> FALSE, index |-> 0]
       ELSE LET i == CHOOSE k \in stop : \A j \in stop : k <= j
            IN IF res(i) = "true" THEN [abort |-> FALSE, index |-> i]
               ELSE [abort |-> TRUE, index |-> 0]

\* The conflicting node indices between pred and succ, in scan order.
ConflictingNodes(ns, pred_index, succ_index, pred, succ) ==
    {i \in (pred_index + 1)..(succ_index - 1) :
        ns[i].left_origin = pred /\ ns[i].right_origin = succ}

\* conflicting_nodes.is_sorted_by_key(id) (the debug_assert of the gap case).
ConflictSorted(ns, conf) ==
    \A i, j \in conf : i < j => ns[i].id <= ns[j].id

\* A binary search that never reports a hit.
BinarySearchNoHit(ns, conf, id) ==
    [found |-> FALSE, insert_index |-> Cardinality({i \in conf : ns[i].id < id})]

\* A binary search whose comparison is reversed.
BinarySearchReversed(ns, conf, id) ==
    [found |-> \E i \in conf : ns[i].id = id,
     insert_index |-> Cardinality({i \in conf : ns[i].id > id})]

\* binary_search_by(probe.cmp(id)) on the id-sorted conflict list:
\* Ok when the id is present, otherwise Err(number of smaller ids).
BinarySearch(ns, conf, id) ==
    IF \E i \in conf : ns[i].id = id
    THEN [found |-> TRUE, insert_index |-> 0]
    ELSE [found |-> FALSE,
          insert_index |-> Cardinality({i \in conf : ns[i].id < id})]

\* The k-th (0-based) conflicting node index in scan order.
NthConflict(conf, k) ==
    CHOOSE i \in conf : Cardinality({j \in conf : j < i}) = k


\* ------------------------------------------------------- VecLinearData ops

Result(res, len, nodes) == [res |-> res, len |-> len, nodes |-> nodes]

\* A gap case that places the new node behind the successor.
GapPositionBehind(ns, id, pred, succ, pred_index, succ_index) ==
    [abort |-> FALSE, found |-> FALSE, position |-> succ_index + 1]

\* Where the gap case of apply_operation places the new node:
\* [abort, found, position].
GapPosition(ns, id, pred, succ, pred_index, succ_index) ==
    LET conf  == ConflictingNodes(ns, pred_index, succ_index, pred, succ)
        right == FirstInRightTree(ns, pred_index + 1, succ_index - 1, succ)
        right_subtree_start_index ==
            IF right.index = 0 THEN succ_index ELSE right.index
    IN IF right.abort
       THEN [abort |-> TRUE, found |-> FALSE, position |-> 0]
       ELSE IF conf = {}
       THEN [abort |-> FALSE, found |-> FALSE, position |-> right_subtree_start_index]
       ELSE IF ~ConflictSorted(ns, conf)
       THEN [abort |-> TRUE, found |-> FALSE, position |-> 0]
       ELSE LET bs == BinarySearch(ns, conf, id)
            IN IF bs.found
               THEN [abort |-> FALSE, found |-> TRUE, position |-> 0]
               ELSE IF bs.insert_index = 0
               THEN [abort |-> FALSE, found |-> FALSE, position |-> pred_index + 1]
               ELSE IF bs.insert_index < Cardinality(conf)
               THEN LET target_conflict_pos == NthConflict(conf, bs.insert_index)
                        target_conflict_id  == ns[target_conflict_pos].id
                        sub == FirstInRightTree(ns, pred_index + 1,
                                                target_conflict_pos - 1,
                                                target_conflict_id)
                    IN IF sub.abort
                       THEN [abort |-> TRUE, found |-> FALSE, position |-> 0]
                       ELSE [abort |-> FALSE, found |-> FALSE,
                             position |-> IF sub.index = 0 THEN target_conflict_pos
                                          ELSE sub.index]
               ELSE [abort |-> FALSE, found |-> FALSE, position |-> succ_index]

\* apply_operation, Insert arm, once both anchors are located:
\* neighbours, a gap, or succ not after pred.
InsertBetween(data, op, pred_index, succ_index) ==
    LET ns == data.nodes
        new_node == Node(op.id, op.pred, op.succ, "Insert", op.value)
    IN IF pred_index + 1 = succ_index
       THEN Result("Ok", data.len + 1, VecInsert(ns, succ_index, new_node))
       ELSE IF pred_index < succ_index
       THEN LET gap == GapPosition(ns, op.id, op.pred, op.succ, pred_index, succ_index)
            IN IF gap.abort THEN Result("Abort", data.len, ns)
               ELSE IF gap.found THEN Result("Err", data.len, ns)
               ELSE Result("Ok", data.len + 1, VecInsert(ns, gap.position, new_node))
       ELSE Result("Err", data.len, ns)

\* An Insert arm that falls back to the End sentinel when succ is not found.
ApplyInsertLenient(data, op) ==
    LET ns == data.nodes
        pred_index == IndexOfId(ns, op.pred)
        succ_index == IF pred_index = 0 THEN 0 ELSE FindFrom(ns, pred_index, op.succ)
    IN IF pred_index = 0 THEN Result("Err", data.len, ns)
       ELSE IF succ_index = 0 THEN InsertBetween(data, op, pred_index, Len(ns))
       ELSE InsertBetween(data, op, pred_index, succ_index)

\* apply_operation, Insert arm: locate pred, then succ from pred on.
ApplyInsert(data, op) ==
    LET ns == data.nodes
        pred_index == IndexOfId(ns, op.pred)
        succ_index == IF pred_index = 0 THEN 0 ELSE FindFrom(ns, pred_index, op.succ)
    IN IF pred_index = 0 THEN Result("Err", data.len, ns)
       ELSE IF succ_index = 0 THEN Result("Err", data.len, ns)
       ELSE InsertBetween(data, op, pred_index, succ_index)

\* A delete that refuses a node that is already deleted.
DeleteStrict(data, id) ==
    LET ns == data.nodes
        i  == IndexOfId(ns, id)
    IN IF i = 0 THEN Result("Err", data.len, ns)
       ELSE IF ns[i].operation = "Insert"
       THEN Result("Ok", data.len - 1, [ns EXCEPT ![i].operation = "Delete"])
       ELSE Result("Err", data.len, ns)

\* A delete that turns any node it finds into a tombstone, sentinels included.
DeleteAnyNode(data, id) ==
    LET ns == data.nodes
        i  == IndexOfId(ns, id)
    IN IF i = 0 THEN Result("Err", data.len, ns)
       ELSE IF ns[i].operation = "Delete" THEN Result("Ok", data.len, ns)
       ELSE Result("Ok", data.len - 1, [ns EXCEPT ![i].operation = "Delete"])

\* A delete that counts a tombstone down a second time.
DeleteCountsAgain(data, id) ==
    LET ns == data.nodes
        i  == IndexOfId(ns, id)
    IN IF i = 0 THEN Result("Err", data.len, ns)
       ELSE IF ns[i].operation \in {"Insert", "Delete"}
       THEN Result("Ok", data.len - 1, [ns EXCEPT ![i].operation = "Delete"])
       ELSE Result("Err", data.len, ns)

\* A delete that brings a tombstone back to life.
DeleteToggles(data, id) ==
    LET ns == data.nodes
        i  == IndexOfId(ns, id)
    IN IF i = 0 THEN Result("Err", data.len, ns)
       ELSE IF ns[i].operation = "Insert"
       THEN Result("Ok", data.len - 1, [ns EXCEPT ![i].operation = "Delete"])
       ELSE IF ns[i].operation = "Delete"
       THEN Result("Ok", data.len + 1, [ns EXCEPT ![i].operation = "Insert"])
       ELSE Result("Err", data.len, ns)

\* VecLinearData::delete: Some(value) is "Ok", None is "Err".
Delete(data, id) ==
    LET ns == data.nodes
        i  == IndexOfId(ns, id)
    IN IF i = 0 THEN Result("Err", data.len, ns)
       ELSE IF ns[i].operation = "Insert"
       THEN Result("Ok", data.len - 1,
                   [ns EXCEPT ![i].operation = "Delete"])
       ELSE IF ns[i].operation = "Delete"
       THEN Result("Ok", data.len, ns)
       ELSE Result("Err", data.len, ns)

\* apply_operation, Delete arm: ranges are not supported.
ApplyDelete(data, op) ==
    IF op.end # None THEN Result("Err", data.len, data.nodes)
    ELSE Delete(data, op.start)

ApplyOperation(data, op) ==
    IF op.type = "Insert" THEN ApplyInsert(data, op) ELSE ApplyDelete(data, op)

\* iter_values: the values of the Insert nodes in table order.
RECURSIVE IterValues(_)
IterValues(ns) ==
    IF ns = <<>> THEN <<>>
    ELSE IF Head(ns).operation = "Insert"
         THEN <<Head(ns).value>> \o IterValues(Tail(ns))
         ELSE IterValues(Tail(ns))

\* ids_after_head that links behind the first value instead of the head.
IdsAfterFirst(ns) == [predecessor |-> ns[2].id, successor |-> ns[3].id]

\* ids_after_head / ids_before_end: [predecessor, successor].
IdsAfterHead(ns) == [predecessor |-> ns[1].id, successor |-> ns[2].id]

IdsBeforeEnd(ns) ==
    [predecessor |-> ns[Len(ns) - 1].id, successor |-> ns[Len(ns)].id]

\* LinkIds::insert_operation.
InsertOperation(ids, id, value) ==
    InsertOp(id, ids.predecessor, ids.successor, value)


\* ------------------------------------------- VecCoalescedLinearData (draft)
\* text/linear_data/coalesced.rs: nodes carry one `origin`, ids are
\* IdWithIndex, values are composites (sequences of elements).

\* IdWithIndex { id, index }.
IdWithIndex(id, index) == [id |-> id, index |-> index]

\* Fills the fields a DataOperation variant does not have (end: None).
NoIndexId == IdWithIndex(None, 0)

\* IdWithIndex::zero.
ZeroIndex(id) == IdWithIndex(id, 0)

\* IdWithIndex::is_followed_by (indices stay far below u16::MAX here).
IsFollowedBy(a, b) == a.id = b.id /\ a.index + 1 = b.index

CNode(id, origin, operation, value) ==
    [id |-> id, origin |-> origin, operation |-> operation, value |-> value]

\* Node::node_len.
NodeLen(n) == IF n.operation \in {"Insert", "Delete"} THEN Len(n.value) ELSE 0

\* Node::last_index.
LastIndex(n) ==
    IF NodeLen(n) = 0 \/ NodeLen(n) = 1 THEN n.id.index
    ELSE n.id.index + (NodeLen(n) - 1)

\* Node::last_id.
LastId(n) == IdWithIndex(n.id.id, LastIndex(n))

\* Node::contains.
Contains(n, id) ==
    /\ n.id.id = id.id
    /\ IF n.operation \in {"Insert", "Delete"}
       THEN n.id.index <= id.index /\ id.index <= LastIndex(n)
       ELSE n.id.index = id.index

\* nodes.iter().enumerate().skip(start - 1).find(|n| n.contains(id)): index or 0.
FindContaining(ns, start, id) ==
    LET hits == {i \in start..Len(ns) : Contains(ns[i], id)}
    IN IF hits = {} THEN 0 ELSE CHOOSE i \in hits : \A j \in hits : i <= j

\* VecCoalescedLinearData::with_value for a non-empty value that one base id
\* can address: Beginning (g, 0), the value at (g, 1), End right behind it.
CoalescedWithValue(g, initial_value) ==
    [len |-> Len(initial_value),
     base_len |-> 1,
     nodes |-> << CNode(ZeroIndex(g), None, "Beginning", <<>>),
                  CNode(IdWithIndex(g, 1), ZeroIndex(g), "Insert", initial_value),
                  CNode(IdWithIndex(g, 1 + Len(initial_value)),
                        IdWithIndex(g, Len(initial_value)), "End", <<>>) >>]

\* The outcome of a coalesced call: Ok, Err, or Abort (an assert, expect or
\* todo!() fired), with the table it leaves.
CResult(res, d) == [res |-> res, data |-> d]

\* A split whose right part starts at the split index in every mode.
SplitNodeSameIndex(d, node_index, split_index, mode) ==
    LET ns == d.nodes
        target == ns[node_index]
        split_offset == split_index - target.id.index
        at_head == split_offset = 0
        at_end == split_index = LastIndex(target)
        m == IF mode = "BeforeAndAfter" /\ at_head THEN "After"
             ELSE IF mode = "BeforeAndAfter" /\ at_end THEN "Before"
             ELSE mode
        cut == IF m = "After" THEN split_offset + 1 ELSE split_offset
        first == [target EXCEPT !.value = SubSeq(target.value, 1, cut)]
        rest == SubSeq(target.value, cut + 1, Len(target.value))
        second_id == IdWithIndex(target.id.id,
                                 split_index)
        second == CNode(second_id, target.id, target.operation,
                        IF m = "BeforeAndAfter" THEN SubSeq(rest, 1, 1) ELSE rest)
        third == CNode(IdWithIndex(second_id.id, second_id.index + 1), second_id,
                       target.operation, SubSeq(rest, 2, Len(rest)))
        tail == IF m = "BeforeAndAfter" THEN <<second, third>> ELSE <<second>>
        bad == \/ split_index > LastIndex(target)
               \/ split_offset < 0
               \/ mode = "Before" /\ at_head
               \/ mode = "After" /\ at_end
               \/ mode = "BeforeAndAfter" /\ at_head /\ at_end
               \/ target.operation \notin {"Insert", "Delete"}
    IN IF bad THEN [abort |-> TRUE, data |-> d, index |-> 0]
       ELSE [abort |-> FALSE,
             data |-> [d EXCEPT
                         !.nodes = SubSeq(ns, 1, node_index - 1) \o <<first>> \o tail
                                   \o SubSeq(ns, node_index + 1, Len(ns)),
                         !.base_len = @ + (IF m = "BeforeAndAfter" THEN 2 ELSE 1)],
             index |-> IF m = "After" THEN node_index ELSE node_index + 1]

\* A split whose right part inherits the origin of the node it came from.
SplitNodeKeepsOrigin(d, node_index, split_index, mode) ==
    LET ns == d.nodes
        target == ns[node_index]
        split_offset == split_index - target.id.index
        at_head == split_offset = 0
        at_end == split_index = LastIndex(target)
        m == IF mode = "BeforeAndAfter" /\ at_head THEN "After"
             ELSE IF mode = "BeforeAndAfter" /\ at_end THEN "Before"
             ELSE mode
        cut == IF m = "After" THEN split_offset + 1 ELSE split_offset
        first == [target EXCEPT !.value = SubSeq(target.value, 1, cut)]
        rest == SubSeq(target.value, cut + 1, Len(target.value))
        second_id == IdWithIndex(target.id.id,
                                 IF m = "After" THEN split_index + 1 ELSE split_index)
        second == CNode(second_id, target.origin, target.operation,
                        IF m = "BeforeAndAfter" THEN SubSeq(rest, 1, 1) ELSE rest)
        third == CNode(IdWithIndex(second_id.id, second_id.index + 1), second_id,
                       target.operation, SubSeq(rest, 2, Len(rest)))
        tail == IF m = "BeforeAndAfter" THEN <<second, third>> ELSE <<second>>
        bad == \/ split_index > LastIndex(target)
               \/ split_offset < 0
               \/ mode = "Before" /\ at_head
               \/ mode = "After" /\ at_end
               \/ mode = "BeforeAndAfter" /\ at_head /\ at_end
               \/ target.operation \notin {"Insert", "Delete"}
    IN IF bad THEN [abort |-> TRUE, data |-> d, index |-> 0]
       ELSE [abort |-> FALSE,
             data |-> [d EXCEPT
                         !.nodes = SubSeq(ns, 1, node_index - 1) \o <<first>> \o tail
                                   \o SubSeq(ns, node_index + 1, Len(ns)),
                         !.base_len = @ + (IF m = "BeforeAndAfter" THEN 2 ELSE 1)],
             index |-> IF m = "After" THEN node_index ELSE node_index + 1]

\* split_node: [abort, data, index].  The asserts on the split position and the
\* expect on split_off abort the call.
SplitNode(d, node_index, split_index, mode) ==
    LET ns == d.nodes
        target == ns[node_index]
        split_offset == split_index - target.id.index
        at_head == split_offset = 0
        at_end == split_index = LastIndex(target)
        m == IF mode = "BeforeAndAfter" /\ at_head THEN "After"
             ELSE IF mode = "BeforeAndAfter" /\ at_end THEN "Before"
             ELSE mode
        cut == IF m = "After" THEN split_offset + 1 ELSE split_offset
        first == [target EXCEPT !.value = SubSeq(target.value, 1, cut)]
        rest == SubSeq(target.value, cut + 1, Len(target.value))
        second_id == IdWithIndex(target.id.id,
                                 IF m = "After" THEN split_index + 1 ELSE split_index)
        second == CNode(second_id, target.id, target.operation,
                        IF m = "BeforeAndAfter" THEN SubSeq(rest, 1, 1) ELSE rest)
        third == CNode(IdWithIndex(second_id.id, second_id.index + 1), second_id,
                       target.operation, SubSeq(rest, 2, Len(rest)))
        tail == IF m = "BeforeAndAfter" THEN <<second, third>> ELSE <<second>>
        bad == \/ split_index > LastIndex(target)
               \/ split_offset < 0
               \/ mode = "Before" /\ at_head
               \/ mode = "After" /\ at_end
               \/ mode = "BeforeAndAfter" /\ at_head /\ at_end
               \/ target.operation \notin {"Insert", "Delete"}
    IN IF bad THEN [abort |-> TRUE, data |-> d, index |-> 0]
       ELSE [abort |-> FALSE,
             data |-> [d EXCEPT
                         !.nodes = SubSeq(ns, 1, node_index - 1) \o <<first>> \o tail
                                   \o SubSeq(ns, node_index + 1, Len(ns)),
                         !.base_len = @ + (IF m = "BeforeAndAfter" THEN 2 ELSE 1)],
             index |-> IF m = "After" THEN node_index ELSE node_index + 1]

\* The insertion itself: len, base.len and the new node at `index`.
CoalescedPlace(d, op, index) ==
    [d EXCEPT !.len = @ + Len(op.value),
              !.base_len = @ + 1,
              !.nodes = VecInsert(d.nodes, index,
                                  CNode(op.id, op.pred, "Insert", op.value))]

\* VecCoalescedLinearData::apply_operation, Insert arm.
CoalescedApplyInsert(d, op) ==
    LET ns == d.nodes
        pred_index == FindContaining(ns, 1, op.pred)
        succ_index == IF pred_index = 0 THEN 0
                      ELSE IF Contains(ns[pred_index], op.succ) THEN pred_index
                      ELSE FindContaining(ns, pred_index, op.succ)
    IN IF pred_index = 0 \/ succ_index = 0 THEN CResult("Err", d)
       ELSE IF pred_index = succ_index
       THEN IF IsFollowedBy(op.pred, op.succ)
            THEN LET split == SplitNode(d, pred_index, op.succ.index, "Before")
                 IN IF split.abort THEN CResult("Abort", d)
                    ELSE CResult("Ok", CoalescedPlace(split.data, op, split.index))
            ELSE CResult("Abort", d)
       ELSE IF pred_index + 1 = succ_index
       THEN IF LastId(ns[pred_index]) = op.pred /\ ns[succ_index].id = op.succ
            THEN CResult("Ok", CoalescedPlace(d, op, succ_index))
            ELSE CResult("Abort", d)
       ELSE CResult("Abort", d)

\* VecCoalescedLinearData::delete of one element: Some(_) is "Ok", None is "Err".
CoalescedDelete(d, id) ==
    LET found == FindContaining(d.nodes, 1, id)
        must_split == /\ found # 0
                      /\ d.nodes[found].operation = "Insert"
                      /\ Len(d.nodes[found].value) > 1
        split == IF must_split THEN SplitNode(d, found, id.index, "BeforeAndAfter")
                 ELSE [abort |-> FALSE, data |-> d, index |-> found]
        node_index == split.index
        node == split.data.nodes[node_index]
    IN IF found = 0 THEN CResult("Err", d)
       ELSE IF split.abort THEN CResult("Abort", d)
       ELSE IF node.operation = "Insert"
       THEN CResult("Ok", [split.data EXCEPT !.nodes[node_index].operation = "Delete",
                                             !.len = @ - 1,
                                             !.base_len = @ - 1])
       ELSE IF node.operation = "Delete" THEN CResult("Ok", d)
       ELSE CResult("Err", d)

\* delete_range, item_from_node: what to do with one node of the range.
ItemFromNode(node, start, end, contains_start, contains_end) ==
    LET start_at_node_start == contains_start /\ node.id = start
        end_at_node_end == contains_end /\ LastIndex(node) = end.index
    IN IF node.operation = "Delete" THEN "Skip"
       ELSE IF (~contains_start /\ ~contains_end)
               \/ (start_at_node_start /\ end_at_node_end) THEN "Full"
       ELSE IF start_at_node_start THEN "Prefix"
       ELSE IF end_at_node_end THEN "Suffix"
       ELSE "Subrange"

\* delete_range: the work items, collected before anything is changed: the
\* node that holds start, then the later nodes of the same base id up to the
\* one that holds end.  <<>> when end is never found (DeleteError::NotFound).
RECURSIVE WorkItemsFrom(_, _, _, _)
WorkItemsFrom(ns, i, start, end) ==
    IF i > Len(ns) THEN <<>>
    ELSE IF ns[i].id.id # end.id THEN WorkItemsFrom(ns, i + 1, start, end)
    ELSE LET found_end == Contains(ns[i], end)
             item == [mode |-> ItemFromNode(ns[i], start, end, FALSE, found_end),
                      node_index |-> i]
         IN IF found_end THEN <<item>>
            ELSE LET rest == WorkItemsFrom(ns, i + 1, start, end)
                 IN IF rest = <<>> THEN <<>> ELSE <<item>> \o rest

WorkItems(ns, start_node_index, start, end) ==
    LET found_end == Contains(ns[start_node_index], end)
        start_item == [mode |-> ItemFromNode(ns[start_node_index], start, end,
                                             TRUE, found_end),
                       node_index |-> start_node_index]
    IN IF found_end THEN <<start_item>>
       ELSE LET rest == WorkItemsFrom(ns, start_node_index + 1, start, end)
            IN IF rest = <<>> THEN <<>> ELSE <<start_item>> \o rest

\* node.operation.delete(); self.len -= node.node_len(); self.base.len -= 1.
\* Operation::delete asserts that the node is an Insert.
TombstoneNode(d, node_index) ==
    IF d.nodes[node_index].operation # "Insert" THEN CResult("Abort", d)
    ELSE CResult("Ok", [d EXCEPT !.nodes[node_index].operation = "Delete",
                                 !.len = @ - NodeLen(d.nodes[node_index]),
                                 !.base_len = @ - 1])

\* delete_range: the splits a work item makes before it tombstones a node.
SplitSteps(mode, start, end) ==
    IF mode = "Suffix" THEN << [at |-> start.index, mode |-> "Before"] >>
    ELSE IF mode = "Prefix" THEN << [at |-> end.index, mode |-> "After"] >>
    ELSE IF mode = "Subrange" THEN << [at |-> start.index, mode |-> "Before"],
                                      [at |-> end.index, mode |-> "After"] >>
    ELSE <<>>

\* The splits in order, each on the node the previous split returned.
SplitAll(d, node_index, steps) ==
    LET upto[i \in 0..Len(steps)] ==
            IF i = 0 THEN [abort |-> FALSE, data |-> d, index |-> node_index]
            ELSE IF upto[i - 1].abort THEN upto[i - 1]
            ELSE SplitNode(upto[i - 1].data, upto[i - 1].index,
                           steps[i].at, steps[i].mode)
    IN upto[Len(steps)]

\* delete_range: one work item, with the node index that was collected.
RunWorkItem(d, item, start, end) ==
    IF item.mode = "Skip" THEN CResult("Ok", d)
    ELSE LET split == SplitAll(d, item.node_index, SplitSteps(item.mode, start, end))
         IN IF split.abort THEN CResult("Abort", d)
            ELSE TombstoneNode(split.data, split.index)

\* delete_range: the work items in order.
RunWorkItems(d, items, start, end) ==
    LET upto[i \in 0..Len(items)] ==
            IF i = 0 THEN CResult("Ok", d)
            ELSE IF upto[i - 1].res # "Ok" THEN upto[i - 1]
            ELSE RunWorkItem(upto[i - 1].data, items[i], start, end)
    IN upto[Len(items)]

\* A delete_range that tombstones the node of start before it has found end.
DeleteRangeEager(d, start, end) ==
    IF start = end THEN CoalescedDelete(d, start)
    ELSE IF start.id # end.id \/ start.index > end.index THEN CResult("Err", d)
    ELSE LET start_node_index == FindContaining(d.nodes, 1, start)
         IN IF start_node_index = 0 THEN CResult("Err", d)
            ELSE LET items == WorkItems(d.nodes, start_node_index, start, end)
                 IN IF items = <<>>
                    THEN CResult("Err", [d EXCEPT !.nodes[start_node_index].operation =
                                                     IF @ = "Insert" THEN "Delete" ELSE @])
                    ELSE LET out == RunWorkItems(d, items, start, end)
                         IN IF out.res = "Ok" THEN out ELSE CResult(out.res, d)

\* VecCoalescedLinearData::delete_range: any DeleteError is "Err".
DeleteRange(d, start, end) ==
    IF start = end THEN CoalescedDelete(d, start)
    ELSE IF start.id # end.id \/ start.index > end.index THEN CResult("Err", d)
    ELSE LET start_node_index == FindContaining(d.nodes, 1, start)
         IN IF start_node_index = 0 THEN CResult("Err", d)
            ELSE LET items == WorkItems(d.nodes, start_node_index, start, end)
                 IN IF items = <<>> THEN CResult("Err", d)
                    ELSE LET out == RunWorkItems(d, items, start, end)
                         IN IF out.res = "Ok" THEN out ELSE CResult(out.res, d)

\* VecCoalescedLinearData::apply_operation: Insert, Delete of one element
\* (end: None) and Delete of a range (end: Some).
CoalescedApplyOperation(d, op) ==
    IF op.type = "Insert" THEN CoalescedApplyInsert(d, op)
    ELSE IF op.end = NoIndexId THEN CoalescedDelete(d, op.start)
    ELSE DeleteRange(d, op.start, op.end)

\* The number of live elements in front of node i.
RECURSIVE LiveBefore(_, _)
LiveBefore(ns, i) ==
    IF i <= 1 THEN 0
    ELSE LiveBefore(ns, i - 1)
         + (IF ns[i - 1].operation = "Insert" THEN Len(ns[i - 1].value) ELSE 0)

\* node_at_position: the Insert node that holds the element at `position`
\* (0-based), or 0.
NodeAtPosition(ns, position) ==
    LET hits == {i \in 1..Len(ns) :
                    /\ ns[i].operation = "Insert"
                    /\ LiveBefore(ns, i) <= position
                    /\ position < LiveBefore(ns, i) + Len(ns[i].value)}
    IN IF hits = {} THEN 0 ELSE CHOOSE i \in hits : \A j \in hits : i <= j

\* VecCoalescedLinearData::ids_before_end.
CoalescedIdsBeforeEnd(ns) ==
    [predecessor |-> LastId(ns[Len(ns) - 1]), successor |-> ns[Len(ns)].id]

\* ids_at_pos whose predecessor is always the sub-id one below the current one,
\* also at the head of a node.
CoalescedIdsAtPosSameNode(d, position) ==
    LET ns == d.nodes
        i == NodeAtPosition(ns, position)
        offset == position - LiveBefore(ns, i)
        current == IdWithIndex(ns[i].id.id, ns[i].id.index + offset)
    IN [predecessor |-> IdWithIndex(current.id, current.index - 1),
        current |-> current,
        successor |-> IF offset + 1 < NodeLen(ns[i])
                      THEN IdWithIndex(current.id, current.index + 1)
                      ELSE ns[i + 1].id]

\* VecCoalescedLinearData::ids_at_pos for position < len, with predecessor_id
\* and successor_id.
CoalescedIdsAtPos(d, position) ==
    LET ns == d.nodes
        i == NodeAtPosition(ns, position)
        offset == position - LiveBefore(ns, i)
        current == IdWithIndex(ns[i].id.id, ns[i].id.index + offset)
    IN [predecessor |-> IF offset > 0 THEN IdWithIndex(current.id, current.index - 1)
                        ELSE LastId(ns[i - 1]),
        current |-> current,
        successor |-> IF offset + 1 < NodeLen(ns[i])
                      THEN IdWithIndex(current.id, current.index + 1)
                      ELSE ns[i + 1].id]

\* iter_values of the coalesced table: the elements of the Insert nodes in order.
RECURSIVE CoalescedValues(_)
CoalescedValues(ns) ==
    IF ns = <<>> THEN <<>>
    ELSE IF Head(ns).operation = "Insert"
         THEN Head(ns).value \o CoalescedValues(Tail(ns))
         ELSE CoalescedValues(Tail(ns))


\* -------------------------------------------------- text_diff (text/text_diff.rs)
\* A string is a sequence of code points; a grapheme is a non-empty sequence
\* of code points.  Three code points stand for the classes that decide
\* grapheme boundaries: a letter, a combining mark (Extend) and a line feed
\* (Control).

Letter == "x"
Mark == "m"
LineFeed == "n"

CodePoints == {Letter, Mark, LineFeed}

\* The strings of at most n code points.
Strings(n) == UNION {[1..k -> CodePoints] : k \in 0..n}

\* UnicodeSegmentation::graphemes(true): a break before every code point but
\* a mark that follows a code point other than a line feed.
Graphemes(str) ==
    LET starts(i) == i = 1 \/ str[i] # Mark \/ str[i - 1] = LineFeed
        heads == {i \in 1..Len(str) : starts(i)}
        nth[k \in 1..Cardinality(heads)] ==
            CHOOSE i \in heads : Cardinality({j \in heads : j < i}) = k - 1
        stop(k) == IF k = Cardinality(heads) THEN Len(str) ELSE nth[k + 1] - 1
    IN [k \in 1..Cardinality(heads) |-> SubSeq(str, nth[k], stop(k))]

\* The code points of a sequence of graphemes, in order.
RECURSIVE Flatten(_)
Flatten(gs) == IF gs = <<>> THEN <<>> ELSE Head(gs) \o Flatten(Tail(gs))

\* A common subsequence of two grapheme sequences: pairs (old index, new
\* index) of equal graphemes, increasing on both sides.
CommonSubsequences(old, new) ==
    {M \in SUBSET {p \in (1..Len(old)) \X (1..Len(new)) : old[p[1]] = new[p[2]]} :
        \A p, q \in M : (p[1] < q[1] <=> p[2] < q[2]) /\ (p[1] = q[1] <=> p[2] = q[2])}

\* TextDiff::from_graphemes (Myers): a shortest edit script keeps a longest
\* common subsequence; which one is the library's choice.
Alignments(old, new) ==
    LET all == CommonSubsequences(old, new)
    IN {M \in all : \A other \in all : Cardinality(other) <= Cardinality(M)}

\* TextChange::Insert / TextChange::Delete (positions count graphemes of the
\* old string, from 0).
TextInsert(at, value) == [kind |-> "Insert", at |-> at, len |-> Len(value), value |-> value]

TextDelete(at, len) == [kind |-> "Delete", at |-> at, len |-> len, value |-> <<>>]

\* text_diff::diff for one alignment: between two kept graphemes (and before
\* the first, after the last) the old graphemes are deleted and the new ones
\* inserted: DiffOp::Delete, DiffOp::Insert or DiffOp::Replace.
TextDiff(old, new, M) ==
    LET stops == M \cup {<<Len(old) + 1, Len(new) + 1>>}
        from(k) == IF k = 1 THEN <<0, 0>>
                   ELSE CHOOSE p \in stops : Cardinality({q \in stops : q[1] < p[1]}) = k - 2
        to(k) == CHOOSE p \in stops : Cardinality({q \in stops : q[1] < p[1]}) = k - 1
        gap(k) ==
            LET old_index == from(k)[1]
                old_len == to(k)[1] - from(k)[1] - 1
                value == SubSeq(new, from(k)[2] + 1, to(k)[2] - 1)
            IN (IF old_len > 0 THEN <<TextDelete(old_index, old_len)>> ELSE <<>>)
               \o (IF value # <<>> THEN <<TextInsert(old_index + old_len, value)>> ELSE <<>>)
        upto[k \in 0..Cardinality(stops)] ==
            IF k = 0 THEN <<>> ELSE upto[k - 1] \o gap(k)
    IN upto[Cardinality(stops)]

\* ------------------------------------------------------------------- state

VARIABLES
    data,       \* data[r]: the VecLinearData of replica r, [len, nodes]
    ops,        \* the operations generated so far (the set S)
    applied,    \* applied[r]: the operations of S that replica r applied with Ok
    last,       \* the apply_operation call that just returned
    rejected,   \* rejected[r]: operations replica r handed back for a missing anchor
    crashed,    \* the replicas whose last call aborted
    cdata,      \* cdata[r]: the VecCoalescedLinearData of replica r's LinearList
    versions,   \* versions[k]: the k-th VersionVector the program holds
    mdns        \* the mDNS announcement component, its mailbox and its threads

vars == <<data, ops, applied, last, rejected, crashed, cdata, versions, mdns>>

\* No announcement component has been created.
NoComponent == <<>>

\* No version vector has been constructed.
NoVersions == <<>>

NoOp == DeleteOp(None, None)

\* A returned call: who called what, the table before the call, Ok / Err, and
\* the operation that Err carries.
Last(act, r, op, before, res, ret) ==
    [act |-> act, r |-> r, op |-> op, before |-> before, res |-> res, ret |-> ret]

\* No call has just returned.
Idle == Last("none", 0, NoOp, NewData, "Ok", NoOp)

InitWith(d) ==
    /\ data = [r \in Replicas |-> d]
    /\ ops = {}
    /\ applied = [r \in Replicas |-> {}]
    /\ last = Idle
    /\ rejected = [r \in Replicas |-> {}]
    /\ crashed = {}
    /\ cdata = [r \in Replicas |-> CoalescedWithValue(BeginId, <<0>>)]
    /\ versions = NoVersions
    /\ mdns = NoComponent

\* Every replica is constructed from the same generator, by `new` or by `with_value`.
Init == \E d \in {NewData, WithValue(0)} : InitWith(d)

Inserts(S) == {o \in S : o.type = "Insert"}

Deletes(S) == {o \in S : o.type = "Delete"}

UsedIds == {o.id : o \in Inserts(ops)}

\* TestIdGenerator: the next id of a generator that counts up.
NextId == FirstOpId + Cardinality(UsedIds)

\* What apply_operation hands back: Err(operation) carries the operation itself.
Returned(op, res) == IF res = "Err" THEN op ELSE NoOp

\* Replica r builds an Insert for the link between two neighbouring nodes of
\* its table (ids_after_head, ids_before_end, NodeIds::before / after) with a
\* fresh id; the operation joins S and is applied by a later call.
GenerateInsert(r, k, id) ==
    /\ r \notin crashed
    /\ id \notin UsedIds
    /\ k \in 1..(Len(data[r].nodes) - 1)
    /\ LET ns == data[r].nodes
           op == InsertOperation([predecessor |-> ns[k].id, successor |-> ns[k + 1].id],
                                 id, ValueOf(id))
       IN ops' = ops \cup {op}
    /\ UNCHANGED <<mdns, versions, cdata, data, applied, last, rejected, crashed>>

\* Replica r builds Delete{start: id, end: None} for a node of its table.
GenerateDelete(r, k) ==
    /\ r \notin crashed
    /\ k \in 2..(Len(data[r].nodes) - 1)
    /\ LET op == DeleteOp(data[r].nodes[k].id, None)
       IN /\ op \notin ops
          /\ ops' = ops \cup {op}
    /\ UNCHANGED <<mdns, versions, cdata, data, applied, last, rejected, crashed>>

\* One call of apply_operation on replica r: the table, the applied set, the crash flag.
Call(r, op) ==
    LET out == ApplyOperation(data[r], op)
    IN /\ data' = [data EXCEPT ![r] = [len |-> out.len, nodes |-> out.nodes]]
       /\ applied' = IF out.res = "Ok" /\ op \in ops
                     THEN [applied EXCEPT ![r] = @ \cup {op}]
                     ELSE applied
       /\ crashed' = IF out.res = "Abort" THEN crashed \cup {r} ELSE crashed

\* The call as its caller sees it: Ok(()) or Err(operation).
Observe(act, r, op) ==
    LET out == ApplyOperation(data[r], op)
    IN last' = Last(act, r, op, data[r], out.res, Returned(op, out.res))

\* An operation of S reaches replica r for the first time, in any order
\* (also before the operations that introduce its anchors).
Deliver(r, op) ==
    /\ r \notin crashed
    /\ op \in ops \ applied[r]
    /\ Call(r, op)
    /\ Observe("deliver", r, op)
    /\ UNCHANGED <<mdns, versions, cdata, ops, rejected>>

\* An operation that replica r already applied reaches it again.
Replay(r, op) ==
    /\ r \notin crashed
    /\ op \in applied[r]
    /\ Call(r, op)
    /\ Observe("replay", r, op)
    /\ UNCHANGED <<mdns, versions, cdata, ops, rejected>>

IdsOf(ns) == {ns[i].id : i \in 1..Len(ns)}

\* Anchors that are no ordered pair of nodes of the table.
Malformed(ns, pred, succ) ==
    \/ IndexOfId(ns, pred) = 0
    \/ IndexOfId(ns, succ) = 0
    \/ IndexOfId(ns, succ) <= IndexOfId(ns, pred)

\* Operations no replica generates from its own table: an Insert with a fresh
\* id whose anchors are unknown or misordered, an Insert that reuses the id and
\* the anchors of a node with another value, a Delete of a sentinel or of an
\* unknown id, a range Delete.
ForeignOps(r, id) ==
    LET ns == data[r].nodes
        known == IdsOf(ns) \cup {UnknownId}
    IN {InsertOp(id, a[1], a[2], ValueOf(id)) :
            a \in {x \in known \X known : Malformed(ns, x[1], x[2])}}
       \cup {InsertOp(ns[k].id, ns[k].left_origin, ns[k].right_origin, ValueOf(id)) :
                k \in 2..(Len(ns) - 1)}
       \cup {DeleteOp(ns[1].id, None), DeleteOp(ns[Len(ns)].id, None),
             DeleteOp(UnknownId, None)}
       \cup {DeleteOp(ns[k].id, ns[k].id) : k \in 2..(Len(ns) - 1)}

\* A foreign operation is handed to replica r.
ApplyForeign(r, op) ==
    /\ r \notin crashed
    /\ Call(r, op)
    /\ Observe("foreign", r, op)
    /\ UNCHANGED <<mdns, versions, cdata, ops, rejected>>

\* The caller has looked at the result; the replicas go on.
Return ==
    /\ last # Idle
    /\ last' = Idle
    /\ UNCHANGED <<mdns, versions, cdata, data, ops, applied, rejected, crashed>>

Next ==
    \/ \E r \in Replicas, k \in 1..(MaxOps + 2), id \in IdPool(MaxOps) :
          last = Idle /\ Cardinality(ops) < MaxOps /\ GenerateInsert(r, k, id)
    \/ \E r \in Replicas, k \in 1..(MaxOps + 2) :
          last = Idle /\ Cardinality(ops) < MaxOps /\ GenerateDelete(r, k)
    \/ Return
    \/ last = Idle /\ \E r \in Replicas, op \in ops : Deliver(r, op)
    \/ last = Idle /\ \E r \in Replicas, op \in ops : Replay(r, op)
    \/ /\ last = Idle
       /\ \E r \in Replicas : \E op \in ForeignOps(r, FirstOpId + MaxOps) :
             ApplyForeign(r, op)

Spec == Init /\ [][Next]_vars

\* ------------------------------------------------- convergence (SpecConv)

\* Delivery without an observer: only the tables and the applied sets move.
DeliverQuiet(r, op) ==
    /\ r \notin crashed
    /\ op \in ops \ applied[r]
    /\ Call(r, op)
    /\ UNCHANGED <<mdns, versions, cdata, ops, last, rejected>>

NextConv ==
    \/ \E r \in Replicas, k \in 1..(MaxInserts + 2) :
          Cardinality(Inserts(ops)) < MaxInserts /\ GenerateInsert(r, k, NextId)
    \/ \E r \in Replicas, k \in 1..(MaxInserts + 2) :
          Cardinality(Deletes(ops)) < MaxDeletes /\ GenerateDelete(r, k)
    \/ \E r \in Replicas, op \in ops : DeliverQuiet(r, op)

\* Every replica starts from VecLinearData::new.
InitNew == InitWith(NewData)

SpecConv == InitNew /\ [][NextConv]_vars

\* --------------------------------------------------- retry (SpecRetry)

\* pred or succ of the Insert names no node of the table.
MissingAnchor(ns, op) ==
    op.type = "Insert" /\ (IndexOfId(ns, op.pred) = 0 \/ IndexOfId(ns, op.succ) = 0)

\* Delivery in any order; the caller keeps what came back for a missing anchor
\* and hands it in again later.
DeliverOrRequeue(r, op) ==
    /\ r \notin crashed
    /\ op \in ops \ applied[r]
    /\ Call(r, op)
    /\ rejected' = IF ApplyOperation(data[r], op).res = "Err"
                      /\ MissingAnchor(data[r].nodes, op)
                   THEN [rejected EXCEPT ![r] = @ \cup {Returned(op, "Err")}]
                   ELSE rejected
    /\ UNCHANGED <<mdns, versions, cdata, ops, last>>

NextRetry ==
    \/ \E r \in Replicas, k \in 1..(MaxInserts + 2) :
          Cardinality(Inserts(ops)) < MaxInserts /\ GenerateInsert(r, k, NextId)
    \/ \E r \in Replicas, op \in ops : DeliverOrRequeue(r, op)

SpecRetry == InitNew /\ [][NextRetry]_vars

\* ------------------------------------------------- register (SpecReg)

\* LinearLatestValueWins::content: the first live value (the expect fails on none).
Content(d) == IterValues(d.nodes)[1]

\* LinearLatestValueWins::all_values.
AllValues(d) == IterValues(d.nodes)

\* LinearLatestValueWins::update_operation: an Insert right after the head.
UpdateOperation(d, id, new_value) ==
    InsertOperation(IdsAfterHead(d.nodes), id, new_value)

\* Replica r produces an update for other replicas (and itself) to apply.
ProduceUpdate(r, id) ==
    /\ r \notin crashed
    /\ id \notin UsedIds
    /\ ops' = ops \cup {UpdateOperation(data[r], id, ValueOf(id))}
    /\ UNCHANGED <<mdns, versions, cdata, data, applied, last, rejected, crashed>>

\* LinearLatestValueWins::update: produce and apply at once
\* ("Direct updates must succeed": an Err aborts).
Update(r, id) ==
    /\ r \notin crashed
    /\ id \notin UsedIds
    /\ LET op  == UpdateOperation(data[r], id, ValueOf(id))
           out == ApplyOperation(data[r], op)
       IN /\ ops' = ops \cup {op}
          /\ data' = [data EXCEPT ![r] = [len |-> out.len, nodes |-> out.nodes]]
          /\ applied' = IF out.res = "Ok"
                        THEN [applied EXCEPT ![r] = @ \cup {op}]
                        ELSE applied
          /\ crashed' = IF out.res = "Ok" THEN crashed ELSE crashed \cup {r}
    /\ UNCHANGED <<mdns, versions, cdata, last, rejected>>

\* LinearLatestValueWins::apply_operation for an update received from a replica.
ApplyUpdate(r, op) ==
    /\ r \notin crashed
    /\ op \in ops \ applied[r]
    /\ Call(r, op)
    /\ UNCHANGED <<mdns, versions, cdata, ops, last, rejected>>

\* LinearLatestValueWins::new on every replica, from the same generator.
InitReg == InitWith(WithValue(0))

NextReg ==
    \/ \E r \in Replicas, id \in IdPool(MaxWrites) :
          Cardinality(ops) < MaxWrites /\ ProduceUpdate(r, id)
    \/ \E r \in Replicas, id \in IdPool(MaxWrites) :
          Cardinality(ops) < MaxWrites /\ Update(r, id)
    \/ \E r \in Replicas, op \in ops : ApplyUpdate(r, op)

SpecReg == InitReg /\ [][NextReg]_vars

\* ------------------------------------------------------ list (SpecList)

\* The element sequences a list starts from and the chunk an insert carries.
InitialValues == {<<0>>, <<0, 1>>}

\* DataOperation over IdWithIndex and chunks.
ListInsertOp(id, pred, succ, value) ==
    [type |-> "Insert", id |-> id, pred |-> pred, succ |-> succ, value |-> value,
     start |-> NoIndexId, end |-> NoIndexId]

ListDeleteOp(start) ==
    [type |-> "Delete", id |-> NoIndexId, pred |-> NoIndexId, succ |-> NoIndexId,
     value |-> <<>>, start |-> start, end |-> NoIndexId]

ListDeleteRangeOp(start, end) ==
    [type |-> "Delete", id |-> NoIndexId, pred |-> NoIndexId, succ |-> NoIndexId,
     value |-> <<>>, start |-> start, end |-> end]

ChunkOf(id, n) == [i \in 1..n |-> ValueOf(id) + (i - 1)]

\* LinearList::insert_operation_at for a non-empty chunk: Err(values) for a
\* position beyond the end is the guard.
InsertOperationAt(r, position, id, n) ==
    /\ r \notin crashed
    /\ position \in 0..cdata[r].len
    /\ LET ids == IF position = cdata[r].len
                  THEN CoalescedIdsBeforeEnd(cdata[r].nodes)
                  ELSE LET at == CoalescedIdsAtPos(cdata[r], position)
                       IN [predecessor |-> at.predecessor, successor |-> at.current]
       IN ops' = ops \cup {ListInsertOp(ZeroIndex(id), ids.predecessor, ids.successor,
                                         ChunkOf(id, n))}
    /\ UNCHANGED <<mdns, versions, data, applied, last, rejected, crashed, cdata>>

\* LinearList::delete_operation_at: None for a position out of bounds is the guard.
DeleteOperationAt(r, position) ==
    /\ r \notin crashed
    /\ position \in 0..(cdata[r].len - 1)
    /\ LET op == ListDeleteOp(CoalescedIdsAtPos(cdata[r], position).current)
       IN /\ op \notin ops
          /\ ops' = ops \cup {op}
    /\ UNCHANGED <<mdns, versions, data, applied, last, rejected, crashed, cdata>>

\* LinearList::apply_operation on replica r; a todo!() or a failed assert
\* aborts the replica.
ListApplyOperation(r, op) ==
    /\ r \notin crashed
    /\ op \in ops \ applied[r]
    /\ LET out == CoalescedApplyOperation(cdata[r], op)
       IN /\ cdata' = [cdata EXCEPT ![r] = out.data]
          /\ applied' = IF out.res = "Ok"
                        THEN [applied EXCEPT ![r] = @ \cup {op}]
                        ELSE applied
          /\ crashed' = IF out.res = "Abort" THEN crashed \cup {r} ELSE crashed
    /\ UNCHANGED <<mdns, versions, data, ops, last, rejected>>

\* LinearList::with_values on every replica, from the same generator.
InitList ==
    \E v \in InitialValues :
       /\ data = [r \in Replicas |-> NewData]
       /\ ops = {}
       /\ applied = [r \in Replicas |-> {}]
       /\ last = Idle
       /\ rejected = [r \in Replicas |-> {}]
       /\ crashed = {}
       /\ cdata = [r \in Replicas |-> CoalescedWithValue(BeginId, v)]
       /\ versions = NoVersions
       /\ mdns = NoComponent

NextList ==
    \/ \E r \in Replicas, position \in 0..(MaxChunk * (MaxListOps + 1)), n \in 1..MaxChunk :
          /\ Cardinality(ops) < MaxListOps
          /\ InsertOperationAt(r, position, NextId, n)
    \/ \E r \in Replicas, position \in 0..(MaxChunk * (MaxListOps + 1)) :
          Cardinality(ops) < MaxListOps /\ DeleteOperationAt(r, position)
    \/ \E r \in Replicas, op \in ops : ListApplyOperation(r, op)

SpecList == InitList /\ [][NextList]_vars

\* Some node of the table holds this sub-id.
Held(d, id) == FindContaining(d.nodes, 1, id) # 0

\* C12: an Insert whose pred and succ are both in a replica's coalesced table
\* is either inserted or handed back with the table as it was; the call never
\* aborts.
C12_CoalescedApplyNeverAborts ==
    \A r \in Replicas \ crashed : \A op \in ops :
       (op.type = "Insert" /\ Held(cdata[r], op.pred) /\ Held(cdata[r], op.succ))
       => LET out == CoalescedApplyOperation(cdata[r], op)
          IN \/ /\ out.res = "Ok"
                /\ \E k \in 1..Len(out.data.nodes) :
                      /\ out.data.nodes[k].id = op.id
                      /\ out.data.nodes[k].value = op.value
             \/ /\ out.res = "Err"
                /\ out.data = cdata[r]

\* ------------------------------------------------ range deletes (SpecRange)

\* One operation of ids_in_range(..).delete_operations(): a range of sub-ids
\* inside one Insert node k of the replica's table, Delete{start, end: Some}.
RangeDeleteOperation(r, k, lo, hi) ==
    /\ r \notin crashed
    /\ k \in 1..Len(cdata[r].nodes)
    /\ LET node == cdata[r].nodes[k]
       IN /\ node.operation = "Insert"
          /\ node.id.index <= lo /\ lo <= hi /\ hi <= LastIndex(node)
          /\ LET op == ListDeleteRangeOp(IdWithIndex(node.id.id, lo),
                                         IdWithIndex(node.id.id, hi))
             IN /\ op \notin ops
                /\ ops' = ops \cup {op}
    /\ UNCHANGED <<mdns, versions, data, applied, last, rejected, crashed, cdata>>

\* LinearList::with_values with two or three elements.
InitRange ==
    \E n \in 2..(MaxChunk + 1) :
       /\ data = [r \in Replicas |-> NewData]
       /\ ops = {}
       /\ applied = [r \in Replicas |-> {}]
       /\ last = Idle
       /\ rejected = [r \in Replicas |-> {}]
       /\ crashed = {}
       /\ cdata = [r \in Replicas |->
                     CoalescedWithValue(BeginId, [i \in 1..n |-> i - 1])]
       /\ versions = NoVersions
       /\ mdns = NoComponent

NextRange ==
    \/ /\ Cardinality(ops) < MaxListOps
       /\ \E r \in Replicas : \E position \in 0..cdata[r].len :
             InsertOperationAt(r, position, NextId, 1)
    \/ /\ Cardinality(ops) < MaxListOps
       /\ \E r \in Replicas : \E k \in 1..Len(cdata[r].nodes) :
             \E lo, hi \in cdata[r].nodes[k].id.index..LastIndex(cdata[r].nodes[k]) :
                RangeDeleteOperation(r, k, lo, hi)
    \/ \E r \in Replicas, op \in ops : ListApplyOperation(r, op)

SpecRange == InitRange /\ [][NextRange]_vars

\* The sub-ids of the elements a coalesced table holds, live or tombstoned.
ElementIds(d) ==
    UNION {{IdWithIndex(d.nodes[k].id.id, j) :
               j \in d.nodes[k].id.index..LastIndex(d.nodes[k])} :
           k \in {i \in 1..Len(d.nodes) : d.nodes[i].operation \in {"Insert", "Delete"}}}

\* "Insert" or "Delete": the state of the element with this sub-id.
ElementState(d, id) ==
    d.nodes[CHOOSE k \in 1..Len(d.nodes) :
               /\ d.nodes[k].operation \in {"Insert", "Delete"}
               /\ Contains(d.nodes[k], id)].operation

InRange(id, start, end) ==
    id.id = start.id /\ start.index <= id.index /\ id.index <= end.index

\* C11: a Delete{start, end} over one base id whose sub-ids are all in a
\* replica's table is applied with Ok, and then exactly the elements of the
\* range are tombstones and every other element is as it was, however the
\* elements are spread over nodes.
C11_RangeDelete ==
    \A r \in Replicas \ crashed : \A op \in ops :
       (/\ op.type = "Delete"
        /\ op.end # NoIndexId
        /\ op.start.id = op.end.id
        /\ op.start.index <= op.end.index
        /\ \A j \in op.start.index..op.end.index :
              IdWithIndex(op.start.id, j) \in ElementIds(cdata[r]))
       => LET out == CoalescedApplyOperation(cdata[r], op)
          IN /\ out.res = "Ok"
             /\ ElementIds(out.data) = ElementIds(cdata[r])
             /\ \A id \in ElementIds(cdata[r]) :
                   ElementState(out.data, id) =
                      IF InRange(id, op.start, op.end) THEN "Delete"
                      ELSE ElementState(cdata[r], id)

\* C3: replicas of a list that were handed the same operations, each once its
\* anchors were there, apply them all and read the same elements in the same
\* order: no call aborts, and equal applied sets give equal element sequences
\* (two concurrent inserts at position 1 of [0] give [0, 10, 20]).
C3_ListConvergence ==
    /\ crashed = {}
    /\ \A r1, r2 \in Replicas :
          applied[r1] = applied[r2]
             => CoalescedValues(cdata[r1].nodes) = CoalescedValues(cdata[r2].nodes)

\* ------------------------------------------------- text diffs (SpecText)
\* text/linear_string.rs, text/mod.rs: a LinearString is a coalesced table of
\* graphemes; a diff is a list of operations over its sub-ids.

\* VecCoalescedLinearData::new: Beginning (g, 0) and End (g, 1).
CoalescedNew(g) ==
    [len |-> 0,
     base_len |-> 0,
     nodes |-> << CNode(ZeroIndex(g), None, "Beginning", <<>>),
                  CNode(IdWithIndex(g, 1), ZeroIndex(g), "End", <<>>) >>]

\* LinearString::with_value.
LinearStringWithValue(g, initial_value) ==
    IF initial_value = <<>> THEN CoalescedNew(g)
    ELSE CoalescedWithValue(g, Graphemes(initial_value))

\* Display for LinearString: the graphemes of the Insert nodes, written out.
LinearStringToString(d) == Flatten(CoalescedValues(d.nodes))

\* VecCoalescedLinearData::ids_in_range(at..range_end).contained: per Insert
\* node that holds a position of the range, the sub-ids of the positions it
\* holds; <<>> is None (a position of the range does not exist).
IdsInRange(d, at, range_end) ==
    LET ns == d.nodes
        start(i) == LiveBefore(ns, i)
        covered == {i \in 1..Len(ns) :
                       /\ ns[i].operation = "Insert"
                       /\ start(i) < range_end
                       /\ at < start(i) + NodeLen(ns[i])}
        nth[k \in 1..Cardinality(covered)] ==
            CHOOSE i \in covered : Cardinality({j \in covered : j < i}) = k - 1
        piece(i) ==
            [first |-> IdWithIndex(ns[i].id.id,
                                   ns[i].id.index + (IF at > start(i) THEN at - start(i) ELSE 0)),
             last |-> IF range_end <= start(i) + NodeLen(ns[i])
                      THEN IdWithIndex(ns[i].id.id, ns[i].id.index + (range_end - start(i) - 1))
                      ELSE LastId(ns[i])]
    IN IF NodeAtPosition(ns, at) = 0 \/ range_end > LiveBefore(ns, Len(ns) + 1)
       THEN <<>>
       ELSE [k \in 1..Cardinality(covered) |-> piece(nth[k])]

\* NodeIdRange::delete_operations: Delete{start, end: Some(end)} per range.
DeleteOperations(contained) ==
    [k \in 1..Len(contained) |-> ListDeleteRangeOp(contained[k].first, contained[k].last)]

\* The link ids linear_diff takes for TextChange::Insert{at}: [res, ids].
InsertLinkIds(d, at) ==
    IF d.len = 0
    THEN [res |-> IF at = 0 THEN "Ok" ELSE "Err",
          ids |-> [predecessor |-> d.nodes[1].id, successor |-> d.nodes[2].id]]
    ELSE IF at < d.len
    THEN IF NodeAtPosition(d.nodes, at) = 0
         THEN [res |-> "Abort", ids |-> CoalescedIdsBeforeEnd(d.nodes)]
         ELSE LET node_ids == CoalescedIdsAtPos(d, at)
              IN [res |-> "Ok",
                  ids |-> [predecessor |-> node_ids.predecessor,
                           successor |-> node_ids.current]]
    ELSE [res |-> IF at = d.len THEN "Ok" ELSE "Err",
          ids |-> CoalescedIdsBeforeEnd(d.nodes)]

\* linear_diff for the changes text_diff::diff reports on alignment M, with g
\* the id the generator hands out: [res, operations].  An inserted value stays
\* far below the u16::MAX sub-ids one id addresses, so one operation carries
\* it, and the next Insert of the diff goes on with the same id
\* (active_insert_op_id).
LinearDiff(base, changed, M, g) ==
    LET changes == TextDiff(Graphemes(LinearStringToString(base)), Graphemes(changed), M)
        upto[k \in 0..Len(changes)] ==
            IF k = 0 THEN [res |-> "Ok", operations |-> <<>>, active |-> 0]
            ELSE IF upto[k - 1].res # "Ok" THEN upto[k - 1]
            ELSE LET c == changes[k]
                     before == upto[k - 1]
                 IN IF c.kind = "Insert"
                    THEN LET link == InsertLinkIds(base, c.at)
                         IN [res |-> link.res,
                             operations |->
                                 IF link.res = "Ok"
                                 THEN Append(before.operations,
                                             ListInsertOp(IdWithIndex(g, before.active),
                                                          link.ids.predecessor,
                                                          link.ids.successor,
                                                          Flatten(c.value)))
                                 ELSE before.operations,
                             active |-> before.active + c.len]
                    ELSE LET contained == IdsInRange(base, c.at, c.at + c.len)
                         IN [res |-> IF contained = <<>> THEN "Err" ELSE "Ok",
                             operations |-> before.operations \o DeleteOperations(contained),
                             active |-> before.active]
        done == upto[Len(changes)]
    IN [res |-> done.res, operations |-> done.operations]

\* LinearString::apply_operation: the String of an Insert becomes a
\* GraphemeString.
TextApplyOperation(d, op) ==
    CoalescedApplyOperation(d, IF op.type = "Insert"
                               THEN [op EXCEPT !.value = Graphemes(op.value)]
                               ELSE op)

\* LinearStringDiff::apply_to: the operations in order, stopping at the first
\* one handed back; what was applied before it stays applied.
ApplyTo(d, operations) ==
    LET upto[k \in 0..Len(operations)] ==
            IF k = 0 THEN CResult("Ok", d)
            ELSE IF upto[k - 1].res # "Ok" THEN upto[k - 1]
            ELSE TextApplyOperation(upto[k - 1].data, operations[k])
    IN upto[Len(operations)]

\* A diff in flight: who made it and its operations.
Diff(r, id, operations) == [by |-> r, id |-> id, operations |-> operations]

\* The generator hands every diff the next unused id.
NextDiffId == FirstOpId + Cardinality(ops)

\* A returned text call: the replica, the table before it, the target string,
\* the operations and the outcome.
TextLast(act, r, before, target, operations, res) ==
    [act |-> act, r |-> r, before |-> before, target |-> target,
     operations |-> operations, res |-> res]

\* What check_diff_and_apply leaves behind on replica r, given the diff and
\* the outcome of apply_to.
DiffApplied(r, changed, diff, out) ==
    LET sent == Diff(r, NextDiffId, diff.operations)
    IN /\ cdata' = [cdata EXCEPT ![r] = out.data]
       /\ ops' = IF diff.res = "Ok" THEN ops \cup {sent} ELSE ops
       /\ applied' = IF out.res = "Ok" THEN [applied EXCEPT ![r] = @ \cup {sent}]
                     ELSE applied
       /\ crashed' = IF out.res \in {"Abort", "DiffAbort"} THEN crashed \cup {r}
                     ELSE crashed
       /\ last' = TextLast("check_diff_and_apply", r, cdata[r], changed,
                           diff.operations, out.res)

\* check_diff_and_apply on replica r: linear_diff against the replica's own
\* text, then apply_to on that text; the diff goes out to the other replicas.
CheckDiffAndApply(r, changed, M) ==
    /\ r \notin crashed
    /\ Cardinality(ops) < MaxDiffs
    /\ \E diff \in {LinearDiff(cdata[r], changed, M, NextDiffId)} :
          \E out \in {IF diff.res = "Ok" THEN ApplyTo(cdata[r], diff.operations)
                      ELSE CResult("Diff" \o diff.res, cdata[r])} :
             DiffApplied(r, changed, diff, out)
    /\ UNCHANGED <<mdns, versions, data, rejected>>

\* apply_to on replica r with a diff another replica made.
ApplyRemoteDiff(r, diff) ==
    /\ r \notin crashed
    /\ diff \in ops \ applied[r]
    /\ \E out \in {ApplyTo(cdata[r], diff.operations)} :
          /\ cdata' = [cdata EXCEPT ![r] = out.data]
          /\ applied' = IF out.res = "Ok" THEN [applied EXCEPT ![r] = @ \cup {diff}]
                        ELSE applied
          /\ crashed' = IF out.res = "Abort" THEN crashed \cup {r} ELSE crashed
          /\ last' = TextLast("apply_to", r, cdata[r], <<>>, diff.operations, out.res)
    /\ UNCHANGED <<mdns, versions, data, ops, rejected>>

\* LinearString::append: a new Insert node in front of End, whose origin is
\* the id of the node that was last.
LinearStringAppend(d, id, value) ==
    LET end_index == Len(d.nodes)
        graphemes == Graphemes(value)
    IN [len |-> d.len + Len(graphemes),
        base_len |-> d.base_len + 1,
        nodes |-> SubSeq(d.nodes, 1, end_index - 1)
                  \o << CNode(id, d.nodes[end_index - 1].id, "Insert", graphemes) >>
                  \o << d.nodes[end_index] >>]

\* How a text is built before the replicas edit it: with_value(first) or
\* with_value(first) and then append(second), from one generator.
InitialTexts ==
    {<<first>> : first \in Strings(MaxInitialText)}
    \cup {<<first, second>> : first, second \in Strings(MaxInitialText) \ {<<>>}}

InitialText(pieces) ==
    IF Len(pieces) = 1 THEN LinearStringWithValue(BeginId, pieces[1])
    ELSE LinearStringAppend(LinearStringWithValue(BeginId, pieces[1]),
                            ZeroIndex(BeginId + 1), pieces[2])

\* Every replica builds the same text from the same generator.
InitText ==
    \E pieces \in InitialTexts :
       /\ data = [r \in Replicas |-> NewData]
       /\ ops = {}
       /\ applied = [r \in Replicas |-> {}]
       /\ last = Idle
       /\ rejected = [r \in Replicas |-> {}]
       /\ crashed = {}
       /\ cdata = [r \in Replicas |-> InitialText(pieces)]
       /\ versions = NoVersions
       /\ mdns = NoComponent

NextText ==
    \/ /\ Cardinality(ops) < MaxDiffs
       /\ \E r \in Replicas \ crashed : \E changed \in Strings(MaxText) :
             \E M \in Alignments(Graphemes(LinearStringToString(cdata[r])), Graphemes(changed)) :
                CheckDiffAndApply(r, changed, M)
    \/ \E r \in Replicas, diff \in ops : ApplyRemoteDiff(r, diff)

SpecText == InitText /\ [][NextText]_vars

\* C13: the operations of linear_diff(T, S), applied in order to T, all succeed
\* and leave T reading S.
C13_DiffRoundTrip ==
    last.act = "check_diff_and_apply"
    => /\ last.res = "Ok"
       /\ LinearStringToString(cdata[last.r]) = last.target

\* The last sub-id the Insert in front of operation k of a diff introduces, if
\* operation k - 1 is an Insert.
PrecedingInsertEnd(operations, k) ==
    IF k > 1 /\ operations[k - 1].type = "Insert"
    THEN {IdWithIndex(operations[k - 1].id.id,
                      operations[k - 1].id.index + Len(Graphemes(operations[k - 1].value)) - 1)}
    ELSE {}

NodeIds(d) == {d.nodes[k].id : k \in 1..Len(d.nodes)}

\* C15: on every register state a replica reaches, update(id, v) with an id
\* that is in no operation and no table succeeds, content() is v afterwards
\* and all_values() is v followed by what all_values() was.
C15_LocalWrite ==
    \A r \in Replicas \ crashed :
       \A id \in IdPool(MaxWrites + 1) \ (UsedIds \cup NodeIds(data[r])) :
          LET out == ApplyOperation(data[r], UpdateOperation(data[r], id, ValueOf(id)))
          IN /\ out.res = "Ok"
             /\ Content(out) = ValueOf(id)
             /\ AllValues(out) = <<ValueOf(id)>> \o AllValues(data[r])

\* A replica has applied two updates, the second one made on top of the
\* first, and shows the second.
C15_Witness ==
    \E r \in Replicas : \E first, second \in applied[r] :
       /\ second.succ = first.id
       /\ Content(data[r]) = second.value
       /\ AllValues(data[r]) = <<second.value, first.value, 0>>

\* ------------------------------------------------- snapshots (SpecSnap)
\* linear_data/vec_impl.rs: visit_snapshot and from_snapshot_nodes.

\* SnapshotNode { id, left, right, deleted, value }; None and NoValue stand for
\* Option::None.
SnapshotNode(id, left, right, deleted, value) ==
    [id |-> id, left |-> left, right |-> right, deleted |-> deleted, value |-> value]

\* Tombstone nodes are written with deleted = false.
SnapshotNodeRefLive(node, is_boundary) ==
    SnapshotNode(node.id, node.left_origin, node.right_origin, FALSE,
                 IF is_boundary THEN NoValue ELSE node.value)

\* visit_snapshot, one node: the SnapshotNodeRef handed to the sink.
SnapshotNodeRef(node, is_boundary) ==
    SnapshotNode(node.id, node.left_origin, node.right_origin,
                 ~is_boundary /\ node.operation = "Delete",
                 IF is_boundary THEN NoValue ELSE node.value)

\* visit_snapshot: [abort, nodes]; a Beginning, End or Invalid node between
\* the two boundary nodes panics.
VisitSnapshot(d) ==
    LET ns == d.nodes
        is_boundary(index) == index = 1 \/ index = Len(ns)
    IN [abort |-> \E index \in 1..Len(ns) :
                     ~is_boundary(index) /\ ns[index].operation \notin {"Insert", "Delete"},
        nodes |-> [index \in 1..Len(ns) |-> SnapshotNodeRef(ns[index], is_boundary(index))]]

\* A SnapshotReadError with the index it carries, or Ok.
ReadResult(res, index, d) == [res |-> res, index |-> index, data |-> d]

\* from_snapshot_nodes, first node: the first check that fails, or "Ok".
FirstNodeError(first) ==
    IF first.left # None THEN "BoundaryNodeHasLeft"
    ELSE IF first.value # NoValue THEN "BoundaryNodeHasValue"
    ELSE IF first.deleted THEN "BoundaryNodeMarkedDeleted"
    ELSE "Ok"

\* from_snapshot_nodes, a node between the boundary nodes.
InnerNodeError(node) ==
    IF node.left = None THEN "NonBoundaryNodeMissingLeft"
    ELSE IF node.right = None THEN "NonBoundaryNodeMissingRight"
    ELSE IF node.value = NoValue THEN "NonBoundaryNodeMissingValue"
    ELSE "Ok"

\* A last node is only checked for a right origin.
LastNodeErrorRightOnly(pending) ==
    IF pending.right # None THEN "BoundaryNodeHasRight" ELSE "Ok"

\* from_snapshot_nodes, last node.
LastNodeError(pending) ==
    IF pending.right # None THEN "BoundaryNodeHasRight"
    ELSE IF pending.value # NoValue THEN "BoundaryNodeHasValue"
    ELSE IF pending.deleted THEN "BoundaryNodeMarkedDeleted"
    ELSE "Ok"

\* from_snapshot_nodes on a stream whose entries are all Ok(node); indices
\* in errors count from 0.
FromSnapshotNodes(nodes) ==
    LET n == Len(nodes)
        failing == {k \in 2..(n - 1) : InnerNodeError(nodes[k]) # "Ok"}
        first_failing == CHOOSE k \in failing : \A other \in failing : k <= other
        reconstructed(k) ==
            IF k = 1
            THEN Node(nodes[k].id, nodes[k].left, nodes[k].right, "Beginning", NoValue)
            ELSE IF k = n
            THEN Node(nodes[k].id, nodes[k].left, nodes[k].right, "End", NoValue)
            ELSE Node(nodes[k].id, nodes[k].left, nodes[k].right,
                      IF nodes[k].deleted THEN "Delete" ELSE "Insert", nodes[k].value)
    IN IF n = 0 THEN ReadResult("MissingBoundaryNodes", 0, NewData)
       ELSE IF FirstNodeError(nodes[1]) # "Ok"
       THEN ReadResult(FirstNodeError(nodes[1]), 0, NewData)
       ELSE IF n = 1 THEN ReadResult("MissingBoundaryNodes", 0, NewData)
       ELSE IF failing # {}
       THEN ReadResult(InnerNodeError(nodes[first_failing]), first_failing - 1, NewData)
       ELSE IF LastNodeError(nodes[n]) # "Ok"
       THEN ReadResult(LastNodeError(nodes[n]), n - 1, NewData)
       ELSE ReadResult("Ok", 0,
                       [len |-> Cardinality({k \in 2..(n - 1) : ~nodes[k].deleted}),
                        nodes |-> [k \in 1..n |-> reconstructed(k)]])

\* A returned snapshot call: the table written, the stream and what reading
\* it gave.
SnapshotLast(act, r, before, stream, out) ==
    [act |-> act, r |-> r, before |-> before, stream |-> stream, out |-> out]

\* Replica r writes its table with visit_snapshot and reads the stream back
\* with from_snapshot_nodes.
SnapshotRoundTrip(r) ==
    /\ r \notin crashed
    /\ \E written \in {VisitSnapshot(data[r])} :
          /\ last' = SnapshotLast("roundtrip", r, data[r], written.nodes,
                                   IF written.abort THEN ReadResult("Abort", 0, NewData)
                                   ELSE FromSnapshotNodes(written.nodes))
          /\ crashed' = IF written.abort THEN crashed \cup {r} ELSE crashed
    /\ UNCHANGED <<mdns, versions, data, ops, applied, rejected, cdata>>

NextSnap ==
    \/ last = Idle /\ NextConv
    \/ last = Idle /\ \E r \in Replicas : SnapshotRoundTrip(r)
    \/ Return

SpecSnap == InitNew /\ [][NextSnap]_vars

\* C16: reading back what visit_snapshot wrote of a reachable table gives
\* Ok(Y) with Y the table: same nodes in the same order (ids, origins,
\* Insert/Delete, values) and the same live count.
C16_SnapshotRoundTrip ==
    last.act = "roundtrip"
    => /\ last.out.res = "Ok"
       /\ last.out.data = last.before

\* A table with a live and a tombstoned element has gone through the round trip.
C16_Witness ==
    /\ last.act = "roundtrip"
    /\ last.out.data = last.before
    /\ \E k \in 1..Len(last.before.nodes) : last.before.nodes[k].operation = "Delete"
    /\ \E k \in 1..Len(last.before.nodes) : last.before.nodes[k].operation = "Insert"

\* ---------------------------------------------- snapshot reads (SpecRead)

\* The streams a reader can be handed: up to MaxStream nodes, each with or
\* without left, right and value, flagged deleted or not.
Streams ==
    UNION {[1..n -> {SnapshotNode(0, left, right, deleted, value) :
                        left \in {None, 0}, right \in {None, 1},
                        deleted \in BOOLEAN, value \in {NoValue, 0}}] :
              n \in 0..MaxStream}

\* from_snapshot_nodes on a stream from outside, once.
ReadSnapshot(stream) ==
    /\ last = Idle
    /\ last' = SnapshotLast("read", 0, NewData, stream, FromSnapshotNodes(stream))
    /\ UNCHANGED <<mdns, versions, data, ops, applied, rejected, crashed, cdata>>

NextRead == \E stream \in Streams : ReadSnapshot(stream)

SpecRead == InitNew /\ [][NextRead]_vars

\* The stream breaks one of the rules from_snapshot_nodes enforces.
MalformedStream(stream) ==
    LET n == Len(stream)
    IN \/ n < 2
       \/ stream[1].value # NoValue \/ stream[1].deleted
       \/ stream[n].value # NoValue \/ stream[n].deleted
       \/ \E k \in 2..(n - 1) :
             stream[k].left = None \/ stream[k].right = None \/ stream[k].value = NoValue

\* C17: from_snapshot_nodes gives an error, never a table, for a stream with
\* fewer than two nodes, with a value or a tombstone flag on its first or last
\* node, or with an inner node that lacks left, right or value.
C17_ReadValidation ==
    (last.act = "read" /\ MalformedStream(last.stream)) => last.out.res # "Ok"

\* A stream whose only fault is a tombstone flag on its last node was refused.
C17_Witness ==
    /\ last.act = "read"
    /\ Len(last.stream) = 3
    /\ last.stream[3].deleted
    /\ last.out.res = "BoundaryNodeMarkedDeleted"
    /\ last.out.index = 2

\* ------------------------------------------------------ rejected calls

\* The call that just returned was refused and changed nothing: it handed the
\* operation back as it was and the table and live count are as before.
RefusedUntouched ==
    /\ last.res = "Err"
    /\ last.ret = last.op
    /\ data[last.r] = last.before

AnchorAbsent(ns, op) ==
    IndexOfId(ns, op.pred) = 0 \/ IndexOfId(ns, op.succ) = 0

SuccNotAfterPred(ns, op) ==
    /\ IndexOfId(ns, op.pred) # 0
    /\ IndexOfId(ns, op.succ) # 0
    /\ IndexOfId(ns, op.succ) <= IndexOfId(ns, op.pred)

\* C6: an Insert whose pred or succ is absent from the table, or whose succ is
\* located at or before pred, is rejected: apply_operation returns Err with the
\* identical operation and the node table and live count are as before the call.
C6_AnchorValidation ==
    (/\ last.act # "none"
     /\ last.op.type = "Insert"
     /\ \/ AnchorAbsent(last.before.nodes, last.op)
        \/ SuccNotAfterPred(last.before.nodes, last.op))
    => RefusedUntouched

\* A call with succ strictly before pred, both in a table that holds inserted
\* nodes, has returned.
C6_Witness ==
    /\ last.act = "foreign"
    /\ last.op.type = "Insert"
    /\ Len(last.before.nodes) >= 4
    /\ SuccNotAfterPred(last.before.nodes, last.op)
    /\ last.op.pred # last.op.succ
    /\ last.res = "Err"

\* The id of the Insert is the id of a node with the same two origins.
InConflictSet(ns, op) ==
    \E i \in 1..Len(ns) :
        /\ ns[i].id = op.id
        /\ ns[i].left_origin = op.pred
        /\ ns[i].right_origin = op.succ

\* C7: an Insert whose id equals an existing id of the same conflict set, in
\* particular one that was applied before, after any intervening operations,
\* is handed back unchanged and leaves the state untouched.
C7_DuplicateInsertRejected ==
    (/\ last.act # "none"
     /\ last.op.type = "Insert"
     /\ InConflictSet(last.before.nodes, last.op))
    => RefusedUntouched

\* An Insert is re-applied after another node joined its conflict set.
C7_Witness ==
    /\ last.act = "replay"
    /\ last.op.type = "Insert"
    /\ \E i \in 1..Len(last.before.nodes) :
          /\ last.before.nodes[i].id # last.op.id
          /\ last.before.nodes[i].left_origin = last.op.pred
          /\ last.before.nodes[i].right_origin = last.op.succ
    /\ last.res = "Err"

\* Coalesced tables to delete from: with_value of 1..(MaxChunk + 1) elements,
\* and each of them after one element was deleted.
CoalescedElementIds(d) ==
    {id \in {IdWithIndex(BeginId, i) : i \in 1..(MaxChunk + 1)} :
        \E k \in 1..Len(d.nodes) :
           d.nodes[k].operation \in {"Insert", "Delete"} /\ Contains(d.nodes[k], id)}

CoalescedFresh ==
    {CoalescedWithValue(BeginId, [i \in 1..n |-> i - 1]) : n \in 1..(MaxChunk + 1)}

CoalescedTables ==
    CoalescedFresh
       \cup UNION {{CoalescedDelete(d, id).data : id \in CoalescedElementIds(d)} :
                    d \in CoalescedFresh}

\* Deleting an element of a coalesced table twice succeeds both times and
\* leaves the table of the first delete.
CoalescedDeleteTwice ==
    \A d \in CoalescedTables : \A id \in CoalescedElementIds(d) :
       LET once  == CoalescedDelete(d, id)
           twice == CoalescedDelete(once.data, id)
       IN once.res = "Ok" /\ twice.res = "Ok" /\ twice.data = once.data

\* C9: Delete{id} of a non-sentinel node succeeds, applying it once more
\* succeeds too, and the second application leaves exactly the node table and
\* live count of the first; on LinearCore for every delete call of a run, on
\* the coalesced table for every element of the tables above.
C9_IdempotentDelete ==
  /\ CoalescedDeleteTwice
  /\
    (/\ last.act # "none"
     /\ last.op.type = "Delete"
     /\ last.op.end = None
     /\ \E i \in 1..Len(last.before.nodes) :
           /\ last.before.nodes[i].id = last.op.start
           /\ last.before.nodes[i].operation \in {"Insert", "Delete"})
    => /\ last.res = "Ok"
       /\ LET once  == data[last.r]
              twice == ApplyOperation(once, last.op)
          IN /\ twice.res = "Ok"
             /\ twice.len = once.len
             /\ twice.nodes = once.nodes

\* A Delete that was applied before is applied again and succeeds.
C9_Witness ==
    /\ last.act = "replay"
    /\ last.op.type = "Delete"
    /\ last.res = "Ok"
    /\ data[last.r] = last.before

IsSentinel(ns, id) ==
    \E i \in 1..Len(ns) : ns[i].id = id /\ ns[i].operation \in {"Beginning", "End"}

\* C10: a Delete of Beginning or End, and a Delete of an id that is not in the
\* table, fails: apply_operation returns the Delete unchanged and the node
\* table and live count are unchanged.
C10_DeleteSentinelOrUnknownFails ==
    (/\ last.act # "none"
     /\ last.op.type = "Delete"
     /\ last.op.end = None
     /\ \/ IsSentinel(last.before.nodes, last.op.start)
        \/ IndexOfId(last.before.nodes, last.op.start) = 0)
    => RefusedUntouched

\* A Delete of the End sentinel of a table that holds a tombstone has returned.
C10_Witness ==
    /\ last.act = "foreign"
    /\ last.op.type = "Delete"
    /\ last.op.start = last.before.nodes[Len(last.before.nodes)].id
    /\ \E i \in 1..Len(last.before.nodes) : last.before.nodes[i].operation = "Delete"
    /\ last.res = "Err"

\* ------------------------------------------------------------ convergence

\* C1: two replicas that applied the same set of operations, each in an order
\* that respects causal precedence (an operation is applied with Ok only when
\* its anchors or its target are in the table), hold identical node tables:
\* same node order, ids, origins, Insert/Delete states and live count.
C1_StructuralConvergence ==
    \A r1, r2 \in Replicas :
        (applied[r1] = applied[r2] /\ crashed = {}) => data[r1] = data[r2]

\* The ids an operation names, and the id it introduces.
NamedIds(o) == IF o.type = "Insert" THEN {o.pred, o.succ} ELSE {o.start}

IntroducedIds(o) == IF o.type = "Insert" THEN {o.id} ELSE {}

Concurrent(a, b) ==
    /\ a # b
    /\ NamedIds(a) \cap IntroducedIds(b) = {}
    /\ NamedIds(b) \cap IntroducedIds(a) = {}

\* apply(apply(B, a), b), with the result of the second call.
ApplyTwo(B, a, b) ==
    LET first == ApplyOperation(B, a)
    IN ApplyOperation([len |-> first.len, nodes |-> first.nodes], b)

\* C2: if a and b are concurrent and each applies successfully to the table B
\* of a replica, then a-then-b and b-then-a both succeed and leave exactly the
\* same node table and live count.
C2_ConcurrentOpsCommute ==
    \A r \in Replicas : \A a, b \in ops :
        (/\ Concurrent(a, b)
         /\ ApplyOperation(data[r], a).res = "Ok"
         /\ ApplyOperation(data[r], b).res = "Ok")
        => /\ ApplyTwo(data[r], a, b).res = "Ok"
           /\ ApplyTwo(data[r], b, a).res = "Ok"
           /\ ApplyTwo(data[r], a, b).nodes = ApplyTwo(data[r], b, a).nodes
           /\ ApplyTwo(data[r], a, b).len = ApplyTwo(data[r], b, a).len

\* C8: an operation handed back for a missing anchor succeeds when it is
\* applied again once its anchors are in the table, and a replica that had to
\* retry ends with the same table as a replica that applied the same operations
\* without ever seeing a rejection.
C8_RetryReachesCausalState ==
    /\ \A r \in Replicas : \A op \in rejected[r] \ applied[r] :
          (r \notin crashed /\ ~MissingAnchor(data[r].nodes, op))
          => ApplyOperation(data[r], op).res = "Ok"
    /\ \A r1, r2 \in Replicas :
          (/\ rejected[r1] \cap applied[r1] # {}
           /\ rejected[r2] = {}
           /\ applied[r1] = applied[r2]
           /\ crashed = {})
          => data[r1] = data[r2]

\* ----------------------------------------------------------------- register

\* C4: replicas that started from the same register and applied the same set
\* of updates, in any order in which each applied with Ok, return the same
\* content() and the same all_values() sequence.
C4_RegisterConvergence ==
    \A r1, r2 \in Replicas :
        (applied[r1] = applied[r2] /\ crashed = {})
        => /\ Content(data[r1]) = Content(data[r2])
           /\ AllValues(data[r1]) = AllValues(data[r2])

\* The orders in which the writes with the ids W can arrive.
Orders(W) ==
    {sq \in [1..Cardinality(W) -> W] :
        \A i, j \in 1..Cardinality(W) : i # j => sq[i] # sq[j]}

\* The ids of W in ascending order.
RECURSIVE Ascending(_)
Ascending(W) ==
    IF W = {} THEN <<>>
    ELSE LET m == CHOOSE x \in W : \A y \in W : x <= y
         IN <<m>> \o Ascending(W \ {m})

\* apply_operation for each operation of a sequence in turn, up to the first
\* call that does not return Ok.
RECURSIVE ApplyAll(_, _)
ApplyAll(d, opseq) ==
    IF opseq = <<>> THEN Result("Ok", d.len, d.nodes)
    ELSE LET out == ApplyOperation(d, Head(opseq))
         IN IF out.res # "Ok" THEN out
            ELSE ApplyAll([len |-> out.len, nodes |-> out.nodes], Tail(opseq))

\* C5: writes produced concurrently against the same register state (pred =
\* Beginning, the same succ), applied to it in any order, all succeed; the
\* visible value is then that of the write with the smallest id and
\* all_values() lists the concurrent writes in ascending id order, followed by
\* the history of the state they were produced against.
C5_SmallestIdWins ==
    \A r \in Replicas \ crashed :
        \A W \in SUBSET (IdPool(MaxWrites) \ UsedIds) :
            Cardinality(W) >= 2 =>
                \A sq \in Orders(W) :
                    LET writes == [i \in 1..Len(sq) |->
                                      UpdateOperation(data[r], sq[i], ValueOf(sq[i]))]
                        out == ApplyAll(data[r], writes)
                        asc == Ascending(W)
                    IN /\ out.res = "Ok"
                       /\ Content(out) = ValueOf(asc[1])
                       /\ AllValues(out) =
                            [i \in 1..Len(asc) |-> ValueOf(asc[i])] \o AllValues(data[r])

\* Seed A has happened on a replica: the writes 3 and 4, both produced against
\* the initial register, are applied and the history reads [10, 20, 0].
C5_Witness ==
    \E r \in Replicas :
        /\ applied[r] = {InsertOp(FirstOpId, BeginId, 1, ValueOf(FirstOpId)),
                         InsertOp(FirstOpId + 1, BeginId, 1, ValueOf(FirstOpId + 1))}
        /\ Content(data[r]) = 10
        /\ AllValues(data[r]) = <<10, 20, 0>>

\* ------------------------------------------- version vectors (SpecVec)

MaxMembers == 3
MaxVersion == 2

\* VersionVector::Full(PureVersionVector), entries[pos + 1] is member pos.
Full(entries) == [kind |-> "Full", entries |-> entries]

OverrideVersion(group_version, override_position, override_version) ==
    [group_version |-> group_version,
     override_position |-> override_position,
     override_version |-> override_version]

Override(num_members, version) ==
    [kind |-> "Override", num_members |-> num_members, version |-> version]

Synced(num_members, version) ==
    [kind |-> "Synced", num_members |-> num_members, version |-> version]

NumMembers(v) == IF v.kind = "Full" THEN Len(v.entries) ELSE v.num_members

\* OverrideVersion::to_vector
ToVector(o, num_members) ==
    [i \in 1..num_members |->
        IF i - 1 = o.override_position THEN o.override_version ELSE o.group_version]

\* The per-member versions the iterator of a vector yields.
Expand(v) ==
    CASE v.kind = "Full" -> v.entries
      [] v.kind = "Override" -> ToVector(v.version, v.num_members)
      [] v.kind = "Synced" -> [i \in 1..v.num_members |-> v.version]

\* u64::cmp
Cmp(a, b) == IF a < b THEN "Less" ELSE IF a = b THEN "Equal" ELSE "Greater"

\* From<cmp::Ordering> for HappenedBeforeOrdering
FromOrdering(ord) ==
    CASE ord = "Less" -> "Before"
      [] ord = "Equal" -> "Equal"
      [] ord = "Greater" -> "After"

\* HappenedBeforeOrdering::reverse; a call that aborted has no result to reverse.
Reverse(ordering) ==
    CASE ordering = "Before" -> "After"
      [] ordering = "After" -> "Before"
      [] OTHER -> ordering

\* EncounteredOrderings after the first k results were passed to update.
EncounteredOrderings(results, k) == {results[i] : i \in 1..k}

ToHbAssumeLoopCheck(seen) ==
    IF seen = {"Equal"} THEN "Equal"
    ELSE IF "Less" \in seen /\ "Greater" \notin seen THEN "Before"
    ELSE IF "Greater" \in seen /\ "Less" \notin seen THEN "After"
    ELSE "Abort"

\* The loop shared by the comparisons that walk a full vector: it returns
\* Concurrent at the first member where both a smaller and a larger slot have
\* been seen, and converts what it has seen after the last member otherwise.
OrderingsLoop(results) ==
    IF \E k \in 1..Len(results) :
           {"Less", "Greater"} \subseteq EncounteredOrderings(results, k)
    THEN "Concurrent"
    ELSE ToHbAssumeLoopCheck(EncounteredOrderings(results, Len(results)))

\* PureVersionVector::hb_cmp
PureHbCmp(self, other) ==
    IF Len(self) = Len(other)
    THEN IF Len(self) = 0 THEN "Equal"
         ELSE OrderingsLoop([i \in 1..Len(self) |-> Cmp(self[i], other[i])])
    ELSE "Incomparable"

HbCompareFullOverride(f, o) ==
    OrderingsLoop([i \in 1..Len(f) |->
                      IF i - 1 = o.override_position
                      THEN Cmp(f[i], o.override_version)
                      ELSE Cmp(f[i], o.group_version)])

\* Before as soon as one slot is smaller than the synced version.
HbCompareFullSyncedAnyLess(f, synced_version) ==
    IF \E i \in 1..Len(f) : f[i] < synced_version THEN "Before"
    ELSE OrderingsLoop([i \in 1..Len(f) |-> Cmp(f[i], synced_version)])

HbCompareFullSynced(f, synced_version) ==
    OrderingsLoop([i \in 1..Len(f) |-> Cmp(f[i], synced_version)])

\* Only the group version is compared with the synced version.
HbCompareOverrideSyncedGroupOnly(o, synced_version) ==
    FromOrdering(Cmp(o.group_version, synced_version))

HbCompareOverrideSynced(o, synced_version) ==
    CASE Cmp(o.group_version, synced_version) = "Less" ->
            (CASE Cmp(o.override_version, synced_version) = "Less" -> "Before"
               [] Cmp(o.override_version, synced_version) = "Equal" -> "Before"
               [] Cmp(o.override_version, synced_version) = "Greater" -> "Concurrent")
      [] Cmp(o.group_version, synced_version) = "Equal" -> "After"
      [] Cmp(o.group_version, synced_version) = "Greater" -> "After"

\* With different override positions only the first comparison is made.
OverrideHbCmpForwardOnly(self, other) ==
    IF self.override_position = other.override_position
    THEN CASE Cmp(self.group_version, other.group_version) = "Less" ->
                 (IF self.override_version <= other.override_version
                  THEN "Before" ELSE "Concurrent")
           [] Cmp(self.group_version, other.group_version) = "Equal" ->
                 FromOrdering(Cmp(self.override_version, other.override_version))
           [] Cmp(self.group_version, other.group_version) = "Greater" ->
                 (IF self.override_version < other.override_version
                  THEN "Concurrent" ELSE "After")
    ELSE IF self.override_version <= other.group_version THEN "Before" ELSE "Concurrent"

\* OverrideVersion::hb_cmp
OverrideHbCmp(self, other) ==
    IF self.override_position = other.override_position
    THEN CASE Cmp(self.group_version, other.group_version) = "Less" ->
                 (CASE Cmp(self.override_version, other.override_version) = "Less" -> "Before"
                    [] Cmp(self.override_version, other.override_version) = "Equal" -> "Before"
                    [] Cmp(self.override_version, other.override_version) = "Greater" ->
                          "Concurrent")
           [] Cmp(self.group_version, other.group_version) = "Equal" ->
                 FromOrdering(Cmp(self.override_version, other.override_version))
           [] Cmp(self.group_version, other.group_version) = "Greater" ->
                 (CASE Cmp(self.override_version, other.override_version) = "Less" ->
                          "Concurrent"
                    [] Cmp(self.override_version, other.override_version) = "Equal" -> "After"
                    [] Cmp(self.override_version, other.override_version) = "Greater" -> "After")
    ELSE CASE Cmp(self.override_version, other.group_version) = "Less" -> "Before"
           [] Cmp(self.override_version, other.group_version) = "Equal" -> "Before"
           [] Cmp(self.override_version, other.group_version) = "Greater" ->
                 (CASE Cmp(other.override_version, self.group_version) = "Less" -> "After"
                    [] Cmp(other.override_version, self.group_version) = "Equal" -> "After"
                    [] Cmp(other.override_version, self.group_version) = "Greater" ->
                          "Concurrent")

\* VersionVector::hb_cmp; "Abort" is the failed assertion "Override with a
\* single member is not supported".
HbCmp(self, other) ==
    IF NumMembers(self) # NumMembers(other) THEN "Incomparable"
    ELSE CASE self.kind = "Full" /\ other.kind = "Full" ->
                 PureHbCmp(self.entries, other.entries)
           [] self.kind = "Full" /\ other.kind = "Override" ->
                 IF other.num_members > 1
                 THEN HbCompareFullOverride(self.entries, other.version) ELSE "Abort"
           [] self.kind = "Full" /\ other.kind = "Synced" ->
                 HbCompareFullSynced(self.entries, other.version)
           [] self.kind = "Override" /\ other.kind = "Full" ->
                 IF self.num_members > 1
                 THEN Reverse(HbCompareFullOverride(other.entries, self.version))
                 ELSE "Abort"
           [] self.kind = "Override" /\ other.kind = "Override" ->
                 IF self.num_members > 1 /\ other.num_members > 1
                 THEN OverrideHbCmp(self.version, other.version) ELSE "Abort"
           [] self.kind = "Override" /\ other.kind = "Synced" ->
                 IF self.num_members > 1
                 THEN HbCompareOverrideSynced(self.version, other.version) ELSE "Abort"
           [] self.kind = "Synced" /\ other.kind = "Full" ->
                 Reverse(HbCompareFullSynced(other.entries, self.version))
           [] self.kind = "Synced" /\ other.kind = "Override" ->
                 IF other.num_members > 1
                 THEN Reverse(HbCompareOverrideSynced(other.version, self.version))
                 ELSE "Abort"
           [] self.kind = "Synced" /\ other.kind = "Synced" ->
                 FromOrdering(Cmp(self.version, other.version))

\* succ_at: the vector increment_at leaves behind, for a position inside the
\* group.
SuccAt(v, position) ==
    CASE v.kind = "Full" ->
            Full([v.entries EXCEPT ![position + 1] = @ + 1])
      [] v.kind = "Override" ->
            IF position = v.version.override_position
            THEN Override(v.num_members,
                          [v.version EXCEPT !.override_version = @ + 1])
            ELSE Full([ToVector(v.version, v.num_members) EXCEPT ![position + 1] = @ + 1])
      [] v.kind = "Synced" ->
            IF v.num_members = 1 THEN Synced(1, v.version + 1)
            ELSE Override(v.num_members,
                          OverrideVersion(v.version, position, v.version + 1))

\* The vectors a caller constructs directly for a group of n members.
Constructed(n) ==
    {Synced(n, version) : version \in 0..MaxVersion}
    \cup {Full(entries) : entries \in [1..n -> 0..MaxVersion]}

\* Three vectors of one group, as the program holds them.
InitVec ==
    /\ data = [r \in Replicas |-> NewData]
    /\ ops = {}
    /\ applied = [r \in Replicas |-> {}]
    /\ last = Idle
    /\ rejected = [r \in Replicas |-> {}]
    /\ crashed = {}
    /\ cdata = [r \in Replicas |-> CoalescedWithValue(BeginId, <<0>>)]
    /\ mdns = NoComponent
    /\ \E n \in 1..MaxMembers :
          versions \in [1..3 -> Constructed(n)]

\* versions[k].increment_at(position)
IncrementAt(k, position) ==
    /\ position < NumMembers(versions[k])
    /\ Expand(versions[k])[position + 1] < MaxVersion
    /\ versions' = [versions EXCEPT ![k] = SuccAt(@, position)]
    /\ UNCHANGED <<mdns, data, ops, applied, last, rejected, crashed, cdata>>

HbCmpLast(cmp) == [act |-> "hb_cmp", cmp |-> cmp]

\* Every vector is compared with every vector, itself included.
CompareVersions ==
    /\ last' = HbCmpLast([i \in DOMAIN versions |->
                            [j \in DOMAIN versions |-> HbCmp(versions[i], versions[j])]])
    /\ UNCHANGED <<mdns, data, ops, applied, rejected, crashed, cdata, versions>>

NextVec ==
    \/ last = Idle /\ \E k \in 1..3, position \in 0..(MaxMembers - 1) : IncrementAt(k, position)
    \/ last = Idle /\ CompareVersions
    \/ Return

SpecVec == InitVec /\ [][NextVec]_vars

\* Pointwise comparison of two expansions of the same length.
PointwiseCmp(a, b) ==
    LET less == \E i \in 1..Len(a) : a[i] < b[i]
        greater == \E i \in 1..Len(a) : a[i] > b[i]
    IN IF less /\ greater THEN "Concurrent"
       ELSE IF less THEN "Before"
       ELSE IF greater THEN "After"
       ELSE "Equal"

C19_Antisymmetry ==
    last.act = "hb_cmp" =>
        \A i, j \in 1..3 :
            /\ last.cmp[i][j] \in {"Before", "Equal", "After", "Concurrent", "Incomparable"}
            /\ last.cmp[i][j] = Reverse(last.cmp[j][i])

\* Two Override vectors with different override positions and a Full vector
\* have been compared: the first is Before the second and the second After
\* the first, the Full vector is After the first and Concurrent with the
\* second.
C19_Witness ==
    /\ last.act = "hb_cmp"
    /\ versions[1].kind = "Override" /\ versions[2].kind = "Override"
    /\ versions[1].version.override_position # versions[2].version.override_position
    /\ versions[3].kind = "Full"
    /\ last.cmp[1][2] = "Before" /\ last.cmp[2][1] = "After"
    /\ last.cmp[3][1] = "After" /\ last.cmp[1][3] = "Before"
    /\ last.cmp[3][2] = "Concurrent" /\ last.cmp[2][3] = "Concurrent"

\* C20: for vectors a, b, c of equal length, in any mix of representations,
\* a.hb_cmp(b) = Before and b.hb_cmp(c) = Before imply a.hb_cmp(c) = Before.
C20_TransitiveBefore ==
    last.act = "hb_cmp" =>
        \A i, j, k \in 1..3 :
            last.cmp[i][j] = "Before" /\ last.cmp[j][k] = "Before"
                => last.cmp[i][k] = "Before"

\* A chain has been compared: a Synced vector Before an Override vector
\* Before a Full vector, and the Synced vector Before the Full one.
C20_Witness ==
    /\ last.act = "hb_cmp"
    /\ versions[1].kind = "Synced" /\ versions[2].kind = "Override"
    /\ versions[3].kind = "Full"
    /\ last.cmp[1][2] = "Before" /\ last.cmp[2][3] = "Before"
    /\ last.cmp[1][3] = "Before"

\* ------------------------------------------------- increments (SpecSucc)

IncrementResult(res, vector) == [res |-> res, vector |-> vector]

\* `+= 1` on a u64 in a build without overflow checks; MaxVersion stands for
\* u64::MAX.
WrappingSucc(version) == (version + 1) % (MaxVersion + 1)

\* A Full vector is handed back as it was.
IncrementAtOutcomesFullUnchanged(v, position) ==
    IF v.kind = "Full" THEN {IncrementResult("Ok", v)}
    ELSE {IncrementResult("Ok", SuccAt(v, position))}

\* increment_at, and succ_at on a clone: what the call can do. "Abort" is a
\* panic: the position assertion, "Max version reached" of checked_add, the
\* index check of to_vector, or the overflow check of `*version += 1` where
\* the build has overflow checks; without them that addition wraps.
IncrementAtOutcomes(v, position) ==
    IF position >= NumMembers(v) THEN {IncrementResult("Abort", v)}
    ELSE CASE v.kind = "Full" ->
                 IF v.entries[position + 1] = MaxVersion
                 THEN {IncrementResult("Abort", v)}
                 ELSE {IncrementResult("Ok", SuccAt(v, position))}
           [] v.kind = "Override" ->
                 IF position = v.version.override_position
                 THEN IF v.version.override_version = MaxVersion
                      THEN {IncrementResult("Abort", v)}
                      ELSE {IncrementResult("Ok", SuccAt(v, position))}
                 ELSE IF v.version.override_position >= v.num_members
                      THEN {IncrementResult("Abort", v)}
                      ELSE {IncrementResult("Ok", SuccAt(v, position))}
           [] v.kind = "Synced" ->
                 IF v.num_members = 1
                 THEN IF v.version = MaxVersion
                      THEN {IncrementResult("Abort", v),
                            IncrementResult("Ok", Synced(1, WrappingSucc(v.version)))}
                      ELSE {IncrementResult("Ok", SuccAt(v, position))}
                 ELSE IF v.version = MaxVersion
                      THEN {IncrementResult("Abort", v)}
                      ELSE {IncrementResult("Ok", SuccAt(v, position))}

\* One vector, as a caller constructs it.
InitSucc ==
    /\ data = [r \in Replicas |-> NewData]
    /\ ops = {}
    /\ applied = [r \in Replicas |-> {}]
    /\ last = Idle
    /\ rejected = [r \in Replicas |-> {}]
    /\ crashed = {}
    /\ cdata = [r \in Replicas |-> CoalescedWithValue(BeginId, <<0>>)]
    /\ mdns = NoComponent
    /\ \E n \in 1..MaxMembers :
          versions \in [1..1 -> Constructed(n)]

IncrementLast(act, position, before, out, hb) ==
    [act |-> act, position |-> position, before |-> before, out |-> out, hb |-> hb]

\* next = versions[1].succ_at(position), then versions[1].hb_cmp(&next).
SuccAtCall(position) ==
    /\ \E out \in IncrementAtOutcomes(versions[1], position) :
          last' = IncrementLast("succ_at", position, versions[1], out,
                                IF out.res = "Ok" THEN HbCmp(versions[1], out.vector)
                                ELSE "Abort")
    /\ UNCHANGED <<mdns, data, ops, applied, rejected, crashed, cdata, versions>>

\* versions[1].increment_at(position), in place.
IncrementAtCall(position) ==
    /\ \E out \in IncrementAtOutcomes(versions[1], position) :
          /\ last' = IncrementLast("increment_at", position, versions[1], out, "None")
          /\ versions' = IF out.res = "Ok" THEN <<out.vector>> ELSE versions
    /\ UNCHANGED <<mdns, data, ops, applied, rejected, crashed, cdata>>

\* The caller goes on after a call that returned; a panic ends the program.
NextSucc ==
    \/ last = Idle /\ \E position \in 0..(MaxMembers - 1) : SuccAtCall(position)
    \/ last = Idle /\ \E position \in 0..(MaxMembers - 1) : IncrementAtCall(position)
    \/ last # Idle /\ last.out.res = "Ok" /\ Return

SpecSucc == InitSucc /\ [][NextSucc]_vars

IncrementCalled == last # Idle /\ last.act \in {"succ_at", "increment_at"}

\* The slot of the call's position in the vector it was made on.
SlotBefore == Expand(last.before)[last.position + 1]

\* The representation the widening rules prescribe for the result.
Widened(before, position, after) ==
    CASE before.kind = "Full" -> after.kind = "Full"
      [] before.kind = "Override" ->
            IF position = before.version.override_position
            THEN /\ after.kind = "Override"
                 /\ after.version.override_position = position
                 /\ after.version.group_version = before.version.group_version
            ELSE after.kind = "Full"
      [] before.kind = "Synced" ->
            IF before.num_members = 1 THEN after.kind = "Synced"
            ELSE /\ after.kind = "Override"
                 /\ after.version.override_position = position
                 /\ after.version.group_version = before.version

IncrementsSlot(before, position, after) ==
    /\ NumMembers(after) = NumMembers(before)
    /\ Expand(after) = [Expand(before) EXCEPT ![position + 1] = @ + 1]
    /\ Widened(before, position, after)

\* C21: increment_at(pos) with pos < n, when it returns, leaves a vector of
\* the same member count whose expansion is the old one with slot pos larger
\* by exactly one and every other slot unchanged, in the representation the
\* widening rules prescribe: Synced{1} stays Synced, Synced{n>1} becomes
\* Override at pos, Override at its own position stays Override, Override
\* elsewhere becomes Full, Full stays Full.
C21_IncrementAt ==
    (IncrementCalled /\ last.position < NumMembers(last.before) /\ last.out.res = "Ok")
        => /\ IncrementsSlot(last.before, last.position, last.out.vector)
           /\ last.act = "increment_at" => versions[1] = last.out.vector

\* C21 for the calls made on a slot below the maximum.
C21_IncrementBelowMax ==
    (IncrementCalled /\ last.position < NumMembers(last.before) /\ SlotBefore < MaxVersion)
        => /\ last.out.res = "Ok"
           /\ IncrementsSlot(last.before, last.position, last.out.vector)
           /\ last.act = "increment_at" => versions[1] = last.out.vector

\* C22: increment_at and succ_at on a slot that holds the maximum value abort;
\* they never return a vector, whether the vector is Synced with one or many
\* members, Override or Full.
C22_OverflowIsFatal ==
    (IncrementCalled /\ last.position < NumMembers(last.before) /\ SlotBefore = MaxVersion)
        => last.out.res = "Abort"

\* C22 for every vector but a Synced vector of a single member.
C22_OverflowIsFatalManyMembers ==
    (/\ IncrementCalled /\ last.position < NumMembers(last.before)
     /\ SlotBefore = MaxVersion
     /\ ~(last.before.kind = "Synced" /\ last.before.num_members = 1))
        => last.out.res = "Abort"

\* C24: for a vector v in any representation and a position p inside the
\* group whose slot is below the maximum, v.hb_cmp(v.succ_at(p)) is Before.
C24_SuccessorIsAfter ==
    (/\ last # Idle /\ last.act = "succ_at"
     /\ last.position < NumMembers(last.before)
     /\ SlotBefore < MaxVersion)
        => last.out.res = "Ok" /\ last.hb = "Before"

\* succ_at was called on an Override vector of three members away from its
\* own position: the result is a Full vector and the Override vector is Before
\* it.
C24_Witness ==
    /\ last # Idle /\ last.act = "succ_at"
    /\ last.before.kind = "Override" /\ last.before.num_members = 3
    /\ last.position # last.before.version.override_position
    /\ last.out.res = "Ok" /\ last.out.vector.kind = "Full"
    /\ last.hb = "Before"

\* ------------------------------------------ construction (SpecCtor)

\* The vectors a caller can build for a group of n members: the enum's
\* variants are public and take any member count; OverrideVersion::new asserts
\* group_version < override_version and takes any position.
PublicConstructed(n) ==
    Constructed(n)
    \cup {Override(n, OverrideVersion(t[1], t[2], t[3])) :
             t \in {u \in (0..MaxVersion) \X (0..MaxMembers) \X (0..MaxVersion) :
                       u[1] < u[3]}}

InitCtor ==
    /\ data = [r \in Replicas |-> NewData]
    /\ ops = {}
    /\ applied = [r \in Replicas |-> {}]
    /\ last = Idle
    /\ rejected = [r \in Replicas |-> {}]
    /\ crashed = {}
    /\ cdata = [r \in Replicas |-> CoalescedWithValue(BeginId, <<0>>)]
    /\ mdns = NoComponent
    /\ \E n \in 1..MaxMembers :
          versions \in [1..1 -> PublicConstructed(n)]

NextCtor ==
    \/ last = Idle /\ \E position \in 0..(MaxMembers - 1) : IncrementAtCall(position)
    \/ last = Idle /\ CompareVersions
    \/ last # Idle /\ last.act = "increment_at" /\ last.out.res = "Ok" /\ Return
    \/ last # Idle /\ last.act = "hb_cmp" /\ last.cmp[1][1] # "Abort" /\ Return

SpecCtor == InitCtor /\ [][NextCtor]_vars

WellFormedOverride(v) ==
    /\ v.num_members > 1
    /\ v.version.group_version < v.version.override_version
    /\ v.version.override_position < v.num_members

\* C23: every Override vector obtained from the public constructors and any
\* sequence of increment_at calls has more than one member, base < ahead and
\* pos < n, and hb_cmp never meets a single-member Override.
C23_OverrideWellFormed ==
    /\ \A k \in DOMAIN versions :
          versions[k].kind = "Override" => WellFormedOverride(versions[k])
    /\ (last # Idle /\ last.act = "hb_cmp") =>
          \A i \in DOMAIN versions : last.cmp[i][i] # "Abort"

\* ------------------------------------------------ missing_to (SpecGroup)

\* An empty BTreeMap; the keys of a result are the positions of the members.
NoEntries == [m \in {} |-> <<>>]

\* (current, updated] as a Vec.
MissingVersionsBetween(current, updated) ==
    IF current < updated THEN [i \in 1..(updated - current) |-> current + i] ELSE <<>>

\* other.group_members.iter().map(|id| (id, missing.clone())).collect()
AllMembers(n, missing) == [m \in 0..(n - 1) |-> missing]

MapInsert(result, m, missing) ==
    [k \in DOMAIN result \cup {m} |-> IF k = m THEN missing ELSE result[k]]

MapRemove(result, m) == [k \in DOMAIN result \ {m} |-> result[k]]

\* missing_to, a Full vector on either side.
MissingFull(self, other) ==
    [m \in {k \in 0..(Len(self) - 1) : self[k + 1] < other[k + 1]} |->
        MissingVersionsBetween(self[m + 1], other[m + 1])]

\* missing_to, the group level of the compact cases.
MissingGroup(n, self_version, other_version) ==
    IF self_version < other_version
    THEN AllMembers(n, MissingVersionsBetween(self_version, other_version))
    ELSE NoEntries

\* missing_to, Override against Override, up to the check of other's override.
MissingOverrideSelf(n, self_version, other_version) ==
    LET group == MissingGroup(n, self_version.group_version, other_version.group_version)
    IN IF self_version.override_version < other_version.group_version
       THEN MapInsert(group, self_version.override_position,
                      MissingVersionsBetween(self_version.override_version,
                                             other_version.group_version))
       ELSE MapRemove(group, self_version.override_position)

MissingOverrideOverride(n, self_version, other_version) ==
    IF self_version.override_position = other_version.override_position
    THEN LET group == MissingGroup(n, self_version.group_version,
                                   other_version.group_version)
         IN IF self_version.override_version < other_version.override_version
            THEN MapInsert(group, other_version.override_position,
                           MissingVersionsBetween(self_version.override_version,
                                                  other_version.override_version))
            ELSE MapRemove(group, other_version.override_position)
    ELSE LET checked == MissingOverrideSelf(n, self_version, other_version)
         IN IF self_version.group_version < other_version.override_version
            THEN MapInsert(checked, other_version.override_position,
                           MissingVersionsBetween(self_version.group_version,
                                                  other_version.override_version))
            ELSE checked

MissingOverrideSynced(n, self_version, other_version) ==
    IF self_version.group_version < other_version
    THEN LET group == MissingGroup(n, self_version.group_version, other_version)
         IN IF self_version.override_version < other_version
            THEN MapInsert(group, self_version.override_position,
                           MissingVersionsBetween(self_version.override_version,
                                                  other_version))
            ELSE MapRemove(group, self_version.override_position)
    ELSE NoEntries

MissingSyncedOverride(n, self_version, other_version) ==
    LET group == MissingGroup(n, self_version, other_version.group_version)
    IN IF self_version < other_version.override_version
       THEN MapInsert(group, other_version.override_position,
                      MissingVersionsBetween(self_version, other_version.override_version))
       ELSE group

\* The map missing_to builds for two vectors of n members.
MissingToResult(self, other) ==
    LET n == NumMembers(self)
    IN CASE self.kind = "Full" \/ other.kind = "Full" ->
               MissingFull(Expand(self), Expand(other))
         [] self.kind = "Override" /\ other.kind = "Override" ->
               MissingOverrideOverride(n, self.version, other.version)
         [] self.kind = "Override" /\ other.kind = "Synced" ->
               MissingOverrideSynced(n, self.version, other.version)
         [] self.kind = "Synced" /\ other.kind = "Override" ->
               MissingSyncedOverride(n, self.version, other.version)
         [] self.kind = "Synced" /\ other.kind = "Synced" ->
               MissingGroup(n, self.version, other.version)

\* debug_assert!(result.is_empty()) of the paired-override case fails.
InnerAssertionFails(self, other) ==
    /\ self.kind = "Override" /\ other.kind = "Override"
    /\ self.version.override_position # other.version.override_position
    /\ self.version.group_version >= other.version.override_version
    /\ DOMAIN MissingOverrideSelf(NumMembers(self), self.version, other.version) # {}

MissingResult(res, result) == [res |-> res, result |-> result]

\* self.missing_to(other): the length assertion, then, where the build has
\* debug assertions, debug_assert!(self.versions.hb_cmp(&other.versions) !=
\* After) and the one of the paired-override case; "Abort" is a panic.
MissingToOutcomes(self, other) ==
    IF NumMembers(self) # NumMembers(other) THEN {MissingResult("Abort", NoEntries)}
    ELSE IF HbCmp(self, other) \in {"After", "Abort"} \/ InnerAssertionFails(self, other)
         THEN {MissingResult("Abort", NoEntries),
               MissingResult("Ok", MissingToResult(self, other))}
         ELSE {MissingResult("Ok", MissingToResult(self, other))}

\* Two group vectors over the same members: versions[1] is self, versions[2]
\* is other.
InitGroup ==
    /\ data = [r \in Replicas |-> NewData]
    /\ ops = {}
    /\ applied = [r \in Replicas |-> {}]
    /\ last = Idle
    /\ rejected = [r \in Replicas |-> {}]
    /\ crashed = {}
    /\ cdata = [r \in Replicas |-> CoalescedWithValue(BeginId, <<0>>)]
    /\ mdns = NoComponent
    /\ \E n \in 1..MaxMembers :
          versions \in [1..2 -> Constructed(n)]

MissingLast(out, hb) == [act |-> "missing_to", out |-> out, hb |-> hb]

\* versions[1].missing_to(versions[2]), next to versions[1].hb_cmp(versions[2]).
MissingToCall ==
    /\ \E out \in MissingToOutcomes(versions[1], versions[2]) :
          last' = MissingLast(out, HbCmp(versions[1], versions[2]))
    /\ UNCHANGED <<mdns, data, ops, applied, rejected, crashed, cdata, versions>>

NextGroup ==
    \/ last = Idle /\ \E k \in 1..2, position \in 0..(MaxMembers - 1) : IncrementAt(k, position)
    \/ last = Idle /\ MissingToCall
    \/ last # Idle /\ last.out.res = "Ok" /\ Return

SpecGroup == InitGroup /\ [][NextGroup]_vars

MissingToCalled == last # Idle /\ last.act = "missing_to"

\* For each member whose slot in a is below its slot in b, the versions above
\* a's up to b's, ascending; nothing for the other members.
ExactlyMissing(a, b) ==
    [m \in {k \in 0..(Len(a) - 1) : a[k + 1] < b[k + 1]} |->
        [i \in 1..(b[m + 1] - a[m + 1]) |-> a[m + 1] + i]]

\* C25: for two group vectors of the same length, in each of the nine pairings
\* of Synced, Override and Full, self.missing_to(other) returns a map with an
\* entry for member m exactly if self[m] < other[m], the entry being
\* self[m]+1, ..., other[m] in ascending order.
C25_MissingToExact ==
    MissingToCalled =>
        /\ last.out.res = "Ok"
        /\ last.out.result = ExactlyMissing(Expand(versions[1]), Expand(versions[2]))

\* C25 for the calls that returned.
C25_MissingToExactWhenReturned ==
    (MissingToCalled /\ last.out.res = "Ok") =>
        last.out.result = ExactlyMissing(Expand(versions[1]), Expand(versions[2]))

\* C25 and C26 for the calls whose self is not After other.
C25_MissingToNotAfter ==
    (MissingToCalled /\ last.hb # "After") =>
        /\ last.out.res = "Ok"
        /\ last.out.result = ExactlyMissing(Expand(versions[1]), Expand(versions[2]))
        /\ DOMAIN last.out.result = {} <=> last.hb = "Equal"

\* C26: for two group vectors of the same length, self.missing_to(other)
\* returns an empty result exactly if self.hb_cmp(other) is Equal or After.
C26_EmptyIffEqualOrAfter ==
    MissingToCalled =>
        /\ last.out.res = "Ok"
        /\ DOMAIN last.out.result = {} <=> last.hb \in {"Equal", "After"}

\* C26 for the calls that returned.
C26_EmptyIffWhenReturned ==
    (MissingToCalled /\ last.out.res = "Ok") =>
        (DOMAIN last.out.result = {} <=> last.hb \in {"Equal", "After"})

\* ------------------------------------- sibling inserts (SpecSiblings)
\* The gap case asserts the sortedness of the conflict list with
\* debug_assert!: a build with debug assertions panics on an unsorted list, a
\* build without them hands the list to binary_search_by as it is.

\* Inserts generated under SpecSiblings.
MaxSiblings == 5

\* Nodes a replayed Insert may add to one table under SpecSiblings.
MaxRepeats == 1

\* The conflicting node indices as the Vec the scan builds.
RECURSIVE ConflictList(_)
ConflictList(conf) ==
    IF conf = {} THEN <<>>
    ELSE LET i == CHOOSE k \in conf : \A j \in conf : k <= j
         IN <<i>> \o ConflictList(conf \ {i})

\* slice::binary_search_by, the loop that narrows [left, right) around
\* mid = left + size / 2 and returns at the first Equal (0-based positions).
RECURSIVE BisectRange(_, _, _, _, _)
BisectRange(ns, list, id, left, right) ==
    IF left >= right THEN [found |-> FALSE, insert_index |-> left]
    ELSE LET mid   == left + ((right - left) \div 2)
             probe == ns[list[mid + 1]].id
         IN IF probe = id THEN [found |-> TRUE, insert_index |-> 0]
            ELSE IF probe < id THEN BisectRange(ns, list, id, mid + 1, right)
            ELSE BisectRange(ns, list, id, left, mid)

\* slice::binary_search_by, the loop that halves `size` and moves `base` to
\* mid unless the probe is Greater; the comparison with Equal comes last.
RECURSIVE BisectBase(_, _, _, _, _)
BisectBase(ns, list, id, base, size) ==
    IF size <= 1 THEN base
    ELSE LET half == size \div 2
             mid  == base + half
         IN BisectBase(ns, list, id,
                       IF ns[list[mid + 1]].id > id THEN base ELSE mid,
                       size - half)

BisectHalving(ns, list, id) ==
    LET base  == BisectBase(ns, list, id, 0, Len(list))
        probe == ns[list[base + 1]].id
    IN IF probe = id THEN [found |-> TRUE, insert_index |-> 0]
       ELSE [found |-> FALSE,
             insert_index |-> IF probe < id THEN base + 1 ELSE base]

\* What binary_search_by may answer on a list that is not sorted: the
\* standard library leaves it unspecified, its two loops are the outcomes.
UncheckedBinarySearch(ns, conf, id) ==
    LET list == ConflictList(conf)
    IN {BisectRange(ns, list, id, 0, Len(list)), BisectHalving(ns, list, id)}

\* The position the gap case derives from one answer of the search:
\* [abort, found, position].
PositionFor(ns, conf, bs, pred_index, succ_index) ==
    IF bs.found
    THEN [abort |-> FALSE, found |-> TRUE, position |-> 0]
    ELSE IF bs.insert_index = 0
    THEN [abort |-> FALSE, found |-> FALSE, position |-> pred_index + 1]
    ELSE IF bs.insert_index < Cardinality(conf)
    THEN LET target_conflict_pos == NthConflict(conf, bs.insert_index)
             sub == FirstInRightTree(ns, pred_index + 1, target_conflict_pos - 1,
                                     ns[target_conflict_pos].id)
         IN IF sub.abort
            THEN [abort |-> TRUE, found |-> FALSE, position |-> 0]
            ELSE [abort |-> FALSE, found |-> FALSE,
                  position |-> IF sub.index = 0 THEN target_conflict_pos
                               ELSE sub.index]
    ELSE [abort |-> FALSE, found |-> FALSE, position |-> succ_index]

\* The Insert reaches the debug_assert of the gap case with an unsorted
\* conflict list.
UnsortedGap(ns, op) ==
    /\ op.type = "Insert"
    /\ LET pred_index == IndexOfId(ns, op.pred)
           succ_index == IF pred_index = 0 THEN 0
                         ELSE FindFrom(ns, pred_index, op.succ)
       IN /\ pred_index # 0
          /\ succ_index > pred_index + 1
          /\ ~FirstInRightTree(ns, pred_index + 1, succ_index - 1, op.succ).abort
          /\ ~ConflictSorted(ns, ConflictingNodes(ns, pred_index, succ_index,
                                                  op.pred, op.succ))

\* The gap case without the debug assertion.
UncheckedGapInsert(d, op) ==
    LET ns         == d.nodes
        pred_index == IndexOfId(ns, op.pred)
        succ_index == FindFrom(ns, pred_index, op.succ)
        conf       == ConflictingNodes(ns, pred_index, succ_index, op.pred, op.succ)
        place(bs)  ==
            LET gap == PositionFor(ns, conf, bs, pred_index, succ_index)
            IN IF gap.abort THEN Result("Abort", d.len, ns)
               ELSE IF gap.found THEN Result("Err", d.len, ns)
               ELSE Result("Ok", d.len + 1,
                           VecInsert(ns, gap.position,
                                     Node(op.id, op.pred, op.succ, "Insert", op.value)))
    IN {place(bs) : bs \in UncheckedBinarySearch(ns, conf, op.id)}

\* apply_operation in either build: one result while every conflict list it
\* meets is sorted, the panic of the assertion or the unchecked search when
\* one is not.
ApplyOperationOutcomes(d, op) ==
    IF UnsortedGap(d.nodes, op)
    THEN {Result("Abort", d.len, d.nodes)} \cup UncheckedGapInsert(d, op)
    ELSE {ApplyOperation(d, op)}

\* One call of apply_operation on replica r with one of its outcomes.
CallOutcome(r, op) ==
    \E out \in ApplyOperationOutcomes(data[r], op) :
        /\ data' = [data EXCEPT ![r] = [len |-> out.len, nodes |-> out.nodes]]
        /\ applied' = IF out.res = "Ok"
                      THEN [applied EXCEPT ![r] = @ \cup {op}]
                      ELSE applied
        /\ crashed' = IF out.res = "Abort" THEN crashed \cup {r} ELSE crashed

\* An operation of S reaches replica r for the first time.
DeliverFirst(r, op) ==
    /\ r \notin crashed
    /\ op \in ops \ applied[r]
    /\ CallOutcome(r, op)
    /\ UNCHANGED <<mdns, versions, cdata, ops, last, rejected>>

\* An operation that replica r already applied reaches it again.
DeliverAgain(r, op) ==
    /\ r \notin crashed
    /\ op \in applied[r]
    /\ Len(data[r].nodes) < MaxSiblings + 2 + MaxRepeats
    /\ CallOutcome(r, op)
    /\ UNCHANGED <<mdns, versions, cdata, ops, last, rejected>>

NextSiblings ==
    \/ \E r \in Replicas, k \in 1..(MaxSiblings + 1) :
          Cardinality(Inserts(ops)) < MaxSiblings /\ GenerateInsert(r, k, NextId)
    \/ \E r \in Replicas, op \in ops : DeliverFirst(r, op)
    \/ \E r \in Replicas, op \in ops : DeliverAgain(r, op)

SpecSiblings == InitNew /\ [][NextSiblings]_vars

\* ------------------------------------------------ node table invariants

\* check_integrity: the first node is the only Beginning and the last node
\* is the only End.
CheckIntegrity(ns) ==
    /\ Len(ns) >= 2
    /\ \A i \in 1..Len(ns) :
          /\ ns[i].operation = "Beginning" <=> i = 1
          /\ ns[i].operation = "End" <=> i = Len(ns)

\* The sentinels as the constructors made them: ids, origins, no value.
SentinelsUntouched(ns) ==
    /\ ns[1] = NewData.nodes[1]
    /\ ns[Len(ns)] \in {NewData.nodes[2], WithValue(0).nodes[3]}

\* The node indices of the conflict set of the pair (pred, succ).
ConflictSet(ns, pred, succ) ==
    {i \in 1..Len(ns) : ns[i].left_origin = pred /\ ns[i].right_origin = succ}

\* The conflict set of (pred, succ) stands in strictly ascending id order.
StrictlySorted(ns, conf) ==
    \A i, j \in conf : i < j => ns[i].id < ns[j].id

AllConflictSetsSorted(ns) ==
    \A i \in 1..Len(ns) :
        StrictlySorted(ns, ConflictSet(ns, ns[i].left_origin, ns[i].right_origin))

UniqueIds(ns) ==
    \A i, j \in 1..Len(ns) : i # j => ns[i].id # ns[j].id

\* Both origins of every non-sentinel node name a node of the table, and the
\* right_origin walk from every node ends for every boundary that is asked.
OriginsResolve(ns) ==
    /\ \A i \in 2..(Len(ns) - 1) :
          /\ ns[i].left_origin \in IdsOf(ns)
          /\ ns[i].right_origin \in IdsOf(ns)
    /\ \A i, j \in 1..Len(ns) :
          EndsInRightTree(ns, ns[i], ns[j].id) \in {"true", "false"}

\* C27: after any sequence of accepted and rejected operations the node table
\* holds exactly one Beginning, at index 0, and exactly one End, at the last
\* index; no insert lands outside them and no delete changes a sentinel.
C27_SentinelsInPlace ==
    \A r \in Replicas :
        CheckIntegrity(data[r].nodes) /\ SentinelsUntouched(data[r].nodes)

\* C28: in every reachable state and for every (pred, succ) pair the nodes
\* with these origins stand in the table in strictly ascending id order.
C28_ConflictSetsSorted ==
    \A r \in Replicas : AllConflictSetsSorted(data[r].nodes)

\* C29: after any sequence of apply_operation calls, replays and rejected
\* operations included, no two nodes of a table carry the same id.
C29_UniqueIds ==
    \A r \in Replicas : UniqueIds(data[r].nodes)

\* C30: in every state reachable through the constructors and
\* apply_operation both origins of every non-sentinel node name nodes of the
\* table, and every ends_in_right_tree walk resolves its origins and ends.
C30_OriginsResolve ==
    \A r \in Replicas : OriginsResolve(data[r].nodes)

\* A replica whose table holds two inserted nodes has just refused the
\* Delete of its Beginning or of its End.
C27_Witness ==
    /\ last.act = "foreign"
    /\ last.op.type = "Delete"
    /\ last.res = "Err"
    /\ LET ns == data[last.r].nodes
       IN /\ Len(ns) >= 4
          /\ last.op.start \in {ns[1].id, ns[Len(ns)].id}

\* A step that leaves two nodes with one id in a table starts from a table
\* with an unsorted conflict set.
C29_DuplicateNeedsUnsorted ==
    [][\A r \in Replicas :
          (UniqueIds(data[r].nodes) /\ ~UniqueIds(data'[r].nodes))
              => ~AllConflictSetsSorted(data[r].nodes)]_vars

\* A replica that holds a node whose right_origin is another inserted node
\* has just refused an Insert with an anchor that names no node.
C30_Witness ==
    /\ last.act = "foreign"
    /\ last.op.type = "Insert"
    /\ last.res = "Err"
    /\ UnknownId \in {last.op.pred, last.op.succ}
    /\ LET ns == data[last.r].nodes
       IN \E i, j \in 2..(Len(ns) - 1) : i # j /\ ns[i].right_origin = ns[j].id

\* C7 among sibling inserts: re-applying an Insert that was applied before,
\* after any intervening operations, hands the operation back and leaves the
\* table, the live count and the replica as they were.
C7_ReplayRefused ==
    [][\A r \in Replicas, op \in ops :
          DeliverAgain(r, op) => (data' = data /\ crashed' = crashed)]_vars

\* ------------------------------------------------ live count, lifecycle

\* The nodes of the table that are in Insert state.
InsertNodes(ns) == {i \in 1..Len(ns) : ns[i].operation = "Insert"}

\* C31: after any sequence of inserts, deletes, repeated deletes and rejected
\* operations the live counter equals the number of nodes in Insert state.
C31_LiveCount ==
    \A r \in Replicas : data[r].len = Cardinality(InsertNodes(data[r].nodes))

\* A replica that still holds a live node has just taken the Delete of a node
\* that was a tombstone already.
C31_Witness ==
    /\ last.act = "replay"
    /\ last.op.type = "Delete"
    /\ last.res = "Ok"
    /\ data[last.r].len >= 1
    /\ \E i \in 1..Len(last.before.nodes) :
          /\ last.before.nodes[i].id = last.op.start
          /\ last.before.nodes[i].operation = "Delete"

\* Every node of `before` is a node of `after`, and the tombstones of
\* `before` are tombstones of `after` with the value they retained.
Survives(before, after) ==
    /\ Len(after) >= Len(before)
    /\ \A i \in 1..Len(before) :
          \E j \in 1..Len(after) :
             /\ after[j].id = before[i].id
             /\ before[i].operation = "Delete"
                   => (after[j].operation = "Delete" /\ after[j].value = before[i].value)

\* C32: across any sequence of operations a node in Delete state never
\* returns to Insert and keeps its retained value, no node leaves the table
\* and the number of nodes never decreases.
C32_MonotonicLifecycle ==
    [][\A r \in Replicas : Survives(data[r].nodes, data'[r].nodes)]_vars

\* A replica that holds a tombstone has just accepted an Insert.
C32_Witness ==
    /\ last.act \in {"deliver", "replay"}
    /\ last.op.type = "Insert"
    /\ last.res = "Ok"
    /\ \E i \in 1..Len(last.before.nodes) : last.before.nodes[i].operation = "Delete"

\* ------------------------------------------------ coalesced table invariants

\* Node::ids: the sub-ids a node owns (a sentinel owns its own id).
NodeIdsOf(n) == {IdWithIndex(n.id.id, j) : j \in n.id.index..LastIndex(n)}

\* check_integrity of the coalesced table: no node contains an id of another.
NoSharedIds(ns) ==
    \A i, j \in 1..Len(ns) :
        i # j => \A id \in NodeIdsOf(ns[i]) : ~Contains(ns[j], id)

\* The ranges [id.index, id.index + node_len) of two nodes with one base id
\* do not overlap.
RangesDisjoint(ns) ==
    \A i, j \in 1..Len(ns) :
        (i # j /\ ns[i].id.id = ns[j].id.id)
            => \/ ns[i].id.index + NodeLen(ns[i]) <= ns[j].id.index
               \/ ns[j].id.index + NodeLen(ns[j]) <= ns[i].id.index

\* C33: after any sequence of inserts, single deletes, range deletes and the
\* splits they trigger, the id ranges of any two nodes with the same base id
\* do not overlap.
C33_IdRangesDisjoint ==
    \A r \in Replicas :
        RangesDisjoint(cdata[r].nodes) /\ NoSharedIds(cdata[r].nodes)

\* A table whose initial node was split around a tombstone and holds an
\* inserted node of another base id between two of the parts.
C33_Witness ==
    \E r \in Replicas :
       LET ns == cdata[r].nodes
       IN \E i, j, k \in 2..(Len(ns) - 1) :
             /\ i < j /\ j < k
             /\ ns[i].id.id = ns[k].id.id
             /\ ns[j].id.id # ns[i].id.id
             /\ ns[j].operation = "Insert"
             /\ \E t \in 2..(Len(ns) - 1) :
                   ns[t].operation = "Delete" /\ ns[t].id.id = ns[i].id.id

\* What a reader of the table sees is the same in both tables: the live
\* values in order, the element ids, each element's state, the live count.
SameElements(before, after) ==
    /\ CoalescedValues(after.nodes) = CoalescedValues(before.nodes)
    /\ ElementIds(after) = ElementIds(before)
    /\ \A id \in ElementIds(before) : ElementState(after, id) = ElementState(before, id)
    /\ after.len = before.len

\* The nodes a split put behind node_index have the id of the part to their
\* left as origin; the left part and every other node stay as they were.
PartsLinked(before, after, node_index) ==
    LET added == Len(after.nodes) - Len(before.nodes)
    IN /\ added \in {1, 2}
       /\ after.nodes[node_index].id = before.nodes[node_index].id
       /\ after.nodes[node_index].origin = before.nodes[node_index].origin
       /\ \A t \in 1..added :
             /\ after.nodes[node_index + t].origin = after.nodes[node_index + t - 1].id
             /\ after.nodes[node_index + t].operation = before.nodes[node_index].operation
       /\ \A i \in 1..(node_index - 1) : after.nodes[i] = before.nodes[i]
       /\ \A i \in (node_index + 1)..Len(before.nodes) :
             after.nodes[i + added] = before.nodes[i]

\* C34: a split of any node of a reachable table, in any SplitMode and at any
\* sub-index the mode admits, leaves the live values, the element ids, each
\* element's Insert/Delete state and the live count as they were, and every
\* new right part has the id of the part to its left as origin.
C34_SplitNeutral ==
    \A r \in Replicas :
       \A node_index \in 2..(Len(cdata[r].nodes) - 1) :
          \A split_index \in cdata[r].nodes[node_index].id.index
                               ..LastIndex(cdata[r].nodes[node_index]) :
             \A mode \in {"Before", "After", "BeforeAndAfter"} :
                \E out \in {SplitNode(cdata[r], node_index, split_index, mode)} :
                   ~out.abort =>
                      /\ SameElements(cdata[r], out.data)
                      /\ PartsLinked(cdata[r], out.data, node_index)

\* A table holds a tombstone and a live part that a split cut from one node,
\* and a node that a split can still cut in three.
C34_Witness ==
    \E r \in Replicas :
       LET ns == cdata[r].nodes
       IN /\ \E i \in 2..(Len(ns) - 2) :
                /\ ns[i].id.id = ns[i + 1].id.id
                /\ ns[i + 1].origin = ns[i].id
                /\ {ns[i].operation, ns[i + 1].operation} = {"Insert", "Delete"}
          /\ \E k \in 2..(Len(ns) - 1) : NodeLen(ns[k]) >= 2

\* ------------------------------------ refused range deletes (SpecAtomic)

\* A sub-index that no node of a table under SpecAtomic reaches.
FarIndex == 9

\* The ends a range handed in from outside may name: the first and the last
\* sub-id of every node, two ids of an unknown base, a sub-id beyond the table.
RangeEnds(d) ==
    {d.nodes[k].id : k \in 1..Len(d.nodes)}
    \cup {LastId(d.nodes[k]) : k \in 1..Len(d.nodes)}
    \cup {IdWithIndex(UnknownId, 0), IdWithIndex(UnknownId, 1),
          IdWithIndex(BeginId, FarIndex)}

\* A Delete{start, end: Some(end)} that no replica derived from ids_in_range
\* joins the operations: any two ends, in any order.
ForeignRangeOperation(r, start, end) ==
    /\ r \notin crashed
    /\ LET op == ListDeleteRangeOp(start, end)
       IN /\ op \notin ops
          /\ ops' = ops \cup {op}
    /\ UNCHANGED <<mdns, versions, data, applied, last, rejected, crashed, cdata>>

NextAtomic ==
    \/ /\ Cardinality(ops) < MaxListOps
       /\ \E r \in Replicas : \E position \in 0..cdata[r].len :
             InsertOperationAt(r, position, NextId, 1)
    \/ /\ Cardinality(ops) < MaxListOps
       /\ \E r \in Replicas : \E k \in 1..Len(cdata[r].nodes) :
             \E lo, hi \in cdata[r].nodes[k].id.index..LastIndex(cdata[r].nodes[k]) :
                RangeDeleteOperation(r, k, lo, hi)
    \/ /\ Cardinality(ops) < MaxListOps
       /\ \E r \in Replicas : \E start, end \in RangeEnds(cdata[r]) :
             ForeignRangeOperation(r, start, end)
    \/ \E r \in Replicas, op \in ops : ListApplyOperation(r, op)

SpecAtomic == InitRange /\ [][NextAtomic]_vars

\* The Delete operations of the set that carry a range.
RangeDeletes == {op \in ops : op.type = "Delete" /\ op.end # NoIndexId}

\* C35: whenever delete_range returns an error (misordered range, different
\* base ids, start or end not found) nothing was deleted or split: the node
\* table, the live count and the node count are as before the call, and
\* apply_operation hands the Delete back unchanged.
C35_RangeDeleteAtomic ==
    \A r \in Replicas \ crashed : \A op \in RangeDeletes :
       \E out \in {CoalescedApplyOperation(cdata[r], op)} :
          out.res = "Err" =>
             /\ out.data = cdata[r]
             /\ Returned(op, out.res) = op

\* A replica whose table has been split holds the start of a range in a live
\* node but not its end, and refuses the range.
C35_Witness ==
    \E r \in Replicas \ crashed : \E op \in RangeDeletes :
       /\ Len(cdata[r].nodes) >= 5
       /\ op.start.id = op.end.id
       /\ op.start.index < op.end.index
       /\ \E k \in 2..(Len(cdata[r].nodes) - 1) :
             /\ cdata[r].nodes[k].operation = "Insert"
             /\ Contains(cdata[r].nodes[k], op.start)
       /\ FindContaining(cdata[r].nodes, 1, op.end) = 0
       /\ CoalescedApplyOperation(cdata[r], op).res = "Err"

\* --------------------------------------------- sub-index width (SpecIndex)
\* IdWithIndex::MAX_LENGTH, the largest sub-index (u16::MAX in the source),
\* scaled down so that tables reach it.
MaxIndex == 3

\* Elements of the longest value with_value is given under SpecIndex.
MaxInitialLen == 6

\* Operations generated and append / prepend calls made under SpecIndex,
\* together.
MaxIndexOps == 2

\* addressable_len with one sub-index more than the width holds.
AddressableLenWide(id) == MaxIndex + 1 - id.index

\* IdWithIndex::addressable_len.
AddressableLen(id) == MaxIndex - id.index

\* IdWithIndex::can_address.
CanAddress(id, num_elements) == AddressableLen(id) >= num_elements

\* The loop of with_value: cuts the remaining value into chunks that the
\* current id can address, drawing a new base id (fresh, fresh + 1, ...) for
\* every chunk after a full one, and closes the table with End.
RECURSIVE WithValueLoop(_, _, _, _)
WithValueLoop(nodes, next_id, remaining, fresh) ==
    LET remaining_indices == AddressableLen(next_id)
        origin == LastId(nodes[Len(nodes)])
    IN IF remaining_indices < Len(remaining)
       THEN WithValueLoop(
                Append(nodes, CNode(next_id, origin, "Insert",
                                    SubSeq(remaining, 1, remaining_indices))),
                ZeroIndex(fresh),
                SubSeq(remaining, remaining_indices + 1, Len(remaining)),
                fresh + 1)
       ELSE LET with_value == Append(nodes, CNode(next_id, origin, "Insert", remaining))
                end_id == IdWithIndex(next_id.id, next_id.index + Len(remaining))
            IN Append(with_value,
                      CNode(end_id, LastId(with_value[Len(with_value)]), "End", <<>>))

\* VecCoalescedLinearData::with_value for a non-empty value of any length.
WithValueChunked(g, initial_value) ==
    [len |-> Len(initial_value),
     base_len |-> 1,
     nodes |-> WithValueLoop(<< CNode(ZeroIndex(g), None, "Beginning", <<>>) >>,
                             IdWithIndex(g, 1), initial_value, g + 1)]

\* VecCoalescedLinearData::append: the assert, then base.append.
CoalescedAppend(d, id, value) ==
    IF ~CanAddress(id, Len(value)) THEN CResult("Abort", d)
    ELSE LET ns == d.nodes
             end_index == Len(ns)
         IN CResult("Ok",
                [d EXCEPT !.len = @ + Len(value),
                          !.base_len = @ + 1,
                          !.nodes = VecInsert(ns, end_index,
                                        CNode(id, ns[end_index - 1].id, "Insert", value))])

\* VecCoalescedLinearData::prepend: the assert, then base.prepend.
CoalescedPrepend(d, id, value) ==
    IF ~CanAddress(id, Len(value)) THEN CResult("Abort", d)
    ELSE CResult("Ok",
             [d EXCEPT !.len = @ + Len(value),
                       !.base_len = @ + 1,
                       !.nodes = VecInsert(d.nodes, 2,
                                     CNode(id, d.nodes[1].id, "Insert", value))])

\* Base ids in use: those of the nodes of every table and of every operation.
BaseIdsInUse ==
    UNION {{cdata[r].nodes[k].id.id : k \in 1..Len(cdata[r].nodes)} : r \in Replicas}
        \cup {o.id.id : o \in Inserts(ops)}

\* The next id of the generator the constructor drew from.
NextBaseId ==
    CHOOSE id \in FirstOpId..(FirstOpId + MaxIndexOps) :
        /\ id \notin BaseIdsInUse
        /\ \A smaller \in FirstOpId..(id - 1) : smaller \in BaseIdsInUse

\* Base ids that append and prepend calls have used so far: those of nodes
\* that no operation put there.
DirectIds ==
    {id \in BaseIdsInUse : id >= FirstOpId /\ id \notin {o.id.id : o \in Inserts(ops)}}

\* Operations generated and direct calls made so far.
CallsMade == Cardinality(ops) + Cardinality(DirectIds)

\* append / prepend on replica r with a caller-chosen id: a failed assert
\* aborts the replica.
AppendCall(r, id, n) ==
    /\ r \notin crashed
    /\ \E out \in {CoalescedAppend(cdata[r], id, ChunkOf(id.id, n))} :
          /\ cdata' = [cdata EXCEPT ![r] = out.data]
          /\ crashed' = IF out.res = "Abort" THEN crashed \cup {r} ELSE crashed
    /\ UNCHANGED <<mdns, versions, data, ops, applied, last, rejected>>

PrependCall(r, id, n) ==
    /\ r \notin crashed
    /\ \E out \in {CoalescedPrepend(cdata[r], id, ChunkOf(id.id, n))} :
          /\ cdata' = [cdata EXCEPT ![r] = out.data]
          /\ crashed' = IF out.res = "Abort" THEN crashed \cup {r} ELSE crashed
    /\ UNCHANGED <<mdns, versions, data, ops, applied, last, rejected>>

\* LinearList::insert_operation_at with a caller-chosen id: the builders
\* assert can_address before they build the operation, so an id that cannot
\* address the chunk aborts the replica and no operation exists.
InsertOperationWithId(r, position, id, n) ==
    /\ r \notin crashed
    /\ position \in 0..cdata[r].len
    /\ IF CanAddress(id, n)
       THEN /\ LET ids == IF position = cdata[r].len
                          THEN CoalescedIdsBeforeEnd(cdata[r].nodes)
                          ELSE LET at == CoalescedIdsAtPos(cdata[r], position)
                               IN [predecessor |-> at.predecessor,
                                   successor |-> at.current]
               IN ops' = ops \cup {ListInsertOp(id, ids.predecessor, ids.successor,
                                                 ChunkOf(id.id, n))}
            /\ crashed' = crashed
       ELSE /\ ops' = ops
            /\ crashed' = crashed \cup {r}
    /\ UNCHANGED <<mdns, versions, data, applied, last, rejected, cdata>>

\* with_value on every replica, from the same generator, for values that
\* take one, two or three base ids.
InitIndex ==
    \E n \in 1..MaxInitialLen :
       /\ data = [r \in Replicas |-> NewData]
       /\ ops = {}
       /\ applied = [r \in Replicas |-> {}]
       /\ last = Idle
       /\ rejected = [r \in Replicas |-> {}]
       /\ crashed = {}
       /\ cdata = [r \in Replicas |->
                     WithValueChunked(BeginId, [i \in 1..n |-> i - 1])]
       /\ versions = NoVersions
       /\ mdns = NoComponent

NextIndex ==
    \/ \E r \in Replicas, index \in 0..MaxIndex, n \in 1..MaxChunk :
          /\ CallsMade < MaxIndexOps
          /\ \E id \in {NextBaseId} : AppendCall(r, IdWithIndex(id, index), n)
    \/ \E r \in Replicas, index \in 0..MaxIndex, n \in 1..MaxChunk :
          /\ CallsMade < MaxIndexOps
          /\ \E id \in {NextBaseId} : PrependCall(r, IdWithIndex(id, index), n)
    \/ /\ CallsMade < MaxIndexOps
       /\ \E id \in {NextBaseId} :
             \E r \in Replicas, index \in 0..MaxIndex, n \in 1..MaxChunk :
                \E position \in 0..cdata[r].len :
                   InsertOperationWithId(r, position, IdWithIndex(id, index), n)
    \/ /\ CallsMade < MaxIndexOps
       /\ \E r \in Replicas : \E position \in 0..(cdata[r].len - 1) :
             DeleteOperationAt(r, position)
    \/ /\ CallsMade < MaxIndexOps
       /\ \E r \in Replicas : \E k \in 1..Len(cdata[r].nodes) :
             \E lo \in 0..MaxIndex, hi \in 0..MaxIndex :
                RangeDeleteOperation(r, k, lo, hi)
    \/ \E r \in Replicas, op \in ops : ListApplyOperation(r, op)

SpecIndex == InitIndex /\ [][NextIndex]_vars

BetweenAnchors(ns) ==
    \A i \in 2..(Len(ns) - 1) :
        /\ IndexOfId(ns, ns[i].left_origin) # 0
        /\ IndexOfId(ns, ns[i].left_origin) < i
        /\ \E j \in (i + 1)..Len(ns) : ns[j].id = ns[i].right_origin

\* The ids of a table in table order.
IdSeq(ns) == [i \in 1..Len(ns) |-> ns[i].id]

\* `after` is `before` with one node put in at index k.
InsertedAt(before, after, k) ==
    /\ Len(after) = Len(before) + 1
    /\ IdSeq(before) = SubSeq(IdSeq(after), 1, k - 1)
                           \o SubSeq(IdSeq(after), k + 1, Len(after))

\* A step leaves the nodes of a table where they were, or puts one node
\* between them.
OrderKept(before, after) ==
    \/ IdSeq(after) = IdSeq(before)
    \/ \E k \in 1..Len(after) : InsertedAt(before, after, k)

\* C37: in every reachable table each non-sentinel node lies after the node
\* named by its left_origin and before the node named by its right_origin,
\* and an insert never changes the relative order of the nodes already there.
C37_BetweenAnchors ==
    /\ [](\A r \in Replicas : BetweenAnchors(data[r].nodes))
    /\ [][\A r \in Replicas : OrderKept(data[r].nodes, data'[r].nodes)]_vars

\* A table in which a node was placed by the gap case: neither of its anchors
\* is its neighbour.
C37_Witness ==
    \E r \in Replicas :
       LET ns == data[r].nodes
       IN \E i \in 2..(Len(ns) - 1) :
             /\ ns[i].operation = "Insert"
             /\ IndexOfId(ns, ns[i].left_origin) < i - 1
             /\ IndexOfId(ns, ns[i].right_origin) > i + 1
             /\ Len(ns) >= 6

\* ------------------------------------------ causal delivery (SpecCausal)
\* Register writes generated under SpecCausal.
MaxCausalWrites == 5

\* A write as the transport carries it: the operation of update_operation
\* together with the ids of the writes its producer had applied.
InTransit(op, deps) ==
    [type |-> op.type, id |-> op.id, pred |-> op.pred, succ |-> op.succ,
     value |-> op.value, start |-> op.start, end |-> op.end, deps |-> deps]

\* The ids of the writes replica r has applied.
AppliedIds(r) == {o.id : o \in applied[r]}

\* LinearLatestValueWins::update_operation on replica r with the next id of
\* the generator.
ProduceCausal(r) ==
    /\ r \notin crashed
    /\ ops' = ops \cup {InTransit(UpdateOperation(data[r], NextId, ValueOf(NextId)),
                                  AppliedIds(r))}
    /\ UNCHANGED <<mdns, versions, cdata, data, applied, last, rejected, crashed>>

\* LinearLatestValueWins::apply_operation for a write whose producer had seen
\* nothing that replica r has not applied (the producer itself included).
DeliverCausal(r, op) ==
    /\ r \notin crashed
    /\ op \in ops \ applied[r]
    /\ op.deps \subseteq AppliedIds(r)
    /\ Call(r, op)
    /\ UNCHANGED <<mdns, versions, cdata, ops, last, rejected>>

NextCausal ==
    \/ \E r \in Replicas : Cardinality(ops) < MaxCausalWrites /\ ProduceCausal(r)
    \/ \E r \in Replicas, op \in ops : DeliverCausal(r, op)

SpecCausal == InitReg /\ [][NextCausal]_vars

\* C38: a write produced on a replica that had applied every other write of
\* the set is, on every replica to which all writes were delivered in an
\* order that respects causality, the value content() returns.
C38_LatestWriteWins ==
    \A w \in ops :
        w.deps = {o.id : o \in ops \ {w}} =>
            \A r \in Replicas \ crashed :
                applied[r] = ops => Content(data[r]) = w.value

\* C38 for writes every one of which was produced on top of all earlier ones.
C38_ChainWins ==
    \A w \in ops :
        (/\ w.deps = {o.id : o \in ops \ {w}}
         /\ \A a, b \in ops : a.id \in b.deps \/ b.id \in a.deps \/ a = b) =>
            \A r \in Replicas \ crashed :
                applied[r] = ops => Content(data[r]) = w.value

\* Both replicas hold three writes, the last of which was produced on top of
\* two concurrent ones, and show it.
C38_Witness ==
    \E w \in ops :
       /\ Cardinality(ops) >= 3
       /\ w.deps = {o.id : o \in ops \ {w}}
       /\ \E a, b \in ops \ {w} : a.id \notin b.deps /\ b.id \notin a.deps /\ a # b
       /\ \A r \in Replicas : applied[r] = ops /\ Content(data[r]) = w.value

\* --------------------------------- mDNS announcement component (SpecMdns)
\* flotsync_discovery: services/mdns_announcement.rs, kompact_fsm.rs and
\* utils.rs (shutdown). The component runs inside an actor framework: it
\* handles lifecycle events before messages, handles messages only while it
\* is active, and keeps the messages it was told while passive or blocked.

\* Registration threads spawned under SpecMdns (calls of start_service).
MaxStarts == 2

\* No thread: the shutdown handle of a state that has none.
NoThread == 0

\* ComponentState, and Dangling for the slot State(None) after take().
ComponentState(name, thread, registration) ==
    [name |-> name, thread |-> thread, registration |-> registration]

Uninitialised == ComponentState("Uninitialised", NoThread, NoThread)
Initialised == ComponentState("Initialised", NoThread, NoThread)
Starting(thread) == ComponentState("Starting", thread, NoThread)
Running(thread, registration) == ComponentState("Running", thread, registration)
Dangling == ComponentState("Dangling", NoThread, NoThread)

\* StateUpdate::ok, StateUpdate::transition, StateUpdate::invalid, and
\* Handled::block_on(..).and_transition(..) which joins a thread first.
StateUpdate(kind, state, result, join) ==
    [kind |-> kind, state |-> state, result |-> result, join |-> join]

StateUpdateOk(old_state) == StateUpdate("NoUpdate", old_state, "Ok", NoThread)
StateUpdateTransition(new_state) == StateUpdate("Update", new_state, "Ok", NoThread)
StateUpdateInvalid == StateUpdate("Invalid", Dangling, "DieNow", NoThread)
BlockOnAndTransition(new_state, thread) ==
    StateUpdate("Update", new_state, "Block", thread)

\* StateUpdate::replace_new_state.
ReplaceNewState(update, replacement) ==
    IF update.kind = "Update" THEN [update EXCEPT !.state = replacement] ELSE update

\* InternalMdnsAnnouncementMessage, with the thread that told it.
ServiceRegistered(thread) == [kind |-> "ServiceRegistered", thread |-> thread]
RegistrationFailed(thread) == [kind |-> "RegistrationFailed", thread |-> thread]

\* MdnsAnnouncementComponent::with_options / new, not yet started.
\* config_ok: ServiceConfig::try_from_options accepts the options it holds.
Component(state, config_ok) ==
    [state |-> state, config_ok |-> config_ok,
     lifecycle |-> "Passive", after |-> "Passive", joining |-> NoThread,
     mailbox |-> <<>>, threads |-> <<>>, signalled |-> {}]

\* transform_state_match!: take() empties the slot; NoUpdate and Update set
\* it again; Invalid leaves it empty and returns Handled::DieNow, upon which
\* the framework destroys the component. `lifecycle` is where the framework
\* puts the component once the handler (and what it blocks on) is through.
TransformStateMatch(c, update, lifecycle) ==
    IF update.kind = "Invalid"
    THEN [c EXCEPT !.state = Dangling, !.lifecycle = "Destroyed",
                   !.after = "Destroyed", !.joining = NoThread]
    ELSE [c EXCEPT !.state = update.state,
                   !.lifecycle = IF update.result = "Block" THEN "Blocked" ELSE lifecycle,
                   !.after = lifecycle,
                   !.joining = update.join]

\* start_service: the configuration is derived and a thread is spawned, or
\* the options are dropped.
StartService(c) ==
    IF c.config_ok
    THEN [update |-> StateUpdateTransition(Starting(Len(c.threads) + 1)),
          threads |-> Append(c.threads, "Spawned")]
    ELSE [update |-> StateUpdateTransition(Uninitialised), threads |-> c.threads]

\* stop_service: signal the thread, wait for it, then Initialised.
StopService(thread) == BlockOnAndTransition(Initialised, thread)

\* ComponentLifecycle::on_start, for a passive component.
OnStart ==
    /\ mdns.lifecycle = "Passive"
    /\ LET name == mdns.state.name
           started == StartService(mdns)
           update == IF name = "Uninitialised" THEN StateUpdateOk(mdns.state)
                     ELSE IF name = "Initialised" THEN started.update
                     ELSE StateUpdateInvalid
       IN /\ name = "Initialised" => Len(mdns.threads) < MaxStarts
          /\ mdns' = [TransformStateMatch(mdns, update, "Active")
                         EXCEPT !.threads = IF name = "Initialised"
                                            THEN started.threads ELSE @]
    /\ UNCHANGED <<data, ops, applied, last, rejected, crashed, cdata, versions>>

\* ComponentLifecycle::on_stop, for an active component.
OnStop ==
    /\ mdns.lifecycle = "Active"
    /\ LET name == mdns.state.name
           stops == name \in {"Running", "Starting"}
           update == IF stops THEN StopService(mdns.state.thread)
                     ELSE StateUpdateOk(mdns.state)
       IN mdns' = [TransformStateMatch(mdns, update, "Passive")
                      EXCEPT !.signalled = IF stops THEN @ \cup {mdns.state.thread} ELSE @]
    /\ UNCHANGED <<data, ops, applied, last, rejected, crashed, cdata, versions>>

\* ComponentLifecycle::on_kill.
OnKill ==
    /\ mdns.lifecycle \in {"Active", "Passive"}
    /\ LET name == mdns.state.name
           stops == name \in {"Running", "Starting"}
           update == IF stops
                     THEN ReplaceNewState(StopService(mdns.state.thread), Uninitialised)
                     ELSE StateUpdateTransition(Uninitialised)
       IN mdns' = [TransformStateMatch(mdns, update, "Destroyed")
                      EXCEPT !.signalled = IF stops THEN @ \cup {mdns.state.thread} ELSE @]
    /\ UNCHANGED <<data, ops, applied, last, rejected, crashed, cdata, versions>>

\* The future of stop_service completes: the thread it joins is through.
Unblock ==
    /\ mdns.lifecycle = "Blocked"
    /\ mdns.threads[mdns.joining] = "Done"
    /\ mdns' = [mdns EXCEPT !.lifecycle = mdns.after, !.joining = NoThread]
    /\ UNCHANGED <<data, ops, applied, last, rejected, crashed, cdata, versions>>

\* The registration thread: service.register() fails, the thread tells
\* registration_failed and ends.
RegisterFails(t) ==
    /\ mdns.threads[t] = "Spawned"
    /\ mdns' = [mdns EXCEPT !.threads[t] = "Done",
                            !.mailbox = Append(@, RegistrationFailed(t))]
    /\ UNCHANGED <<data, ops, applied, last, rejected, crashed, cdata, versions>>

\* service.register() returns the event loop; the loop is entered unless
\* shutdown was already signalled.
RegisterOk(t) ==
    /\ mdns.threads[t] = "Spawned"
    /\ mdns' = [mdns EXCEPT !.threads[t] = IF t \in mdns.signalled THEN "Done"
                                           ELSE "Polling"]
    /\ UNCHANGED <<data, ops, applied, last, rejected, crashed, cdata, versions>>

\* The registered callback fires during a poll: it tells registered or
\* registration_failed, and the loop goes on.
RegisteredCallback(t, ok) ==
    /\ mdns.threads[t] = "Polling"
    /\ mdns' = [mdns EXCEPT !.threads[t] = "Announced",
                            !.mailbox = Append(@, IF ok THEN ServiceRegistered(t)
                                                  ELSE RegistrationFailed(t))]
    /\ UNCHANGED <<data, ops, applied, last, rejected, crashed, cdata, versions>>

\* The loop sees should_shutdown() and the thread ends.
ThreadExit(t) ==
    /\ mdns.threads[t] \in {"Polling", "Announced"}
    /\ t \in mdns.signalled
    /\ mdns' = [mdns EXCEPT !.threads[t] = "Done"]
    /\ UNCHANGED <<data, ops, applied, last, rejected, crashed, cdata, versions>>

\* Actor::receive_local for the message at the head of the mailbox of an
\* active component.
ReceiveLocal ==
    /\ mdns.lifecycle = "Active"
    /\ mdns.mailbox # <<>>
    /\ LET msg == Head(mdns.mailbox)
           starting == mdns.state.name = "Starting"
           update == IF ~starting THEN StateUpdateInvalid
                     ELSE IF msg.kind = "ServiceRegistered"
                     THEN StateUpdateTransition(Running(mdns.state.thread, msg.thread))
                     ELSE StateUpdateTransition(Initialised)
           forget == starting /\ msg.kind = "RegistrationFailed"
       IN mdns' = [TransformStateMatch(mdns, update, "Active")
                      EXCEPT !.mailbox = Tail(@),
                             !.signalled = IF forget THEN @ \cup {mdns.state.thread}
                                           ELSE @]
    /\ UNCHANGED <<data, ops, applied, last, rejected, crashed, cdata, versions>>

\* MdnsAnnouncementComponent::new or with_options, created and not started.
InitMdns ==
    /\ data = [r \in Replicas |-> NewData]
    /\ ops = {}
    /\ applied = [r \in Replicas |-> {}]
    /\ last = Idle
    /\ rejected = [r \in Replicas |-> {}]
    /\ crashed = {}
    /\ cdata = [r \in Replicas |-> CoalescedWithValue(BeginId, <<0>>)]
    /\ versions = NoVersions
    /\ mdns \in {Component(Uninitialised, FALSE)}
                   \cup {Component(Initialised, config_ok) : config_ok \in BOOLEAN}

NextMdns ==
    \/ OnStart
    \/ OnStop
    \/ OnKill
    \/ Unblock
    \/ \E t \in 1..Len(mdns.threads) : RegisterFails(t)
    \/ \E t \in 1..Len(mdns.threads) : RegisterOk(t)
    \/ \E t \in 1..Len(mdns.threads), ok \in BOOLEAN : RegisteredCallback(t, ok)
    \/ \E t \in 1..Len(mdns.threads) : ThreadExit(t)
    \/ ReceiveLocal

SpecMdns == InitMdns /\ [][NextMdns]_vars

\* C39: under every interleaving of start, stop and kill with the messages
\* of the registration threads, a ServiceRegistered or RegistrationFailed
\* message is handled only while the component is in the Starting state, so
\* the invalid transition that kills the component and leaves the state slot
\* empty is never taken.
C39_HandledOnlyInStarting ==
    [][Len(mdns'.mailbox) < Len(mdns.mailbox)
          => (mdns.state.name = "Starting" /\ mdns'.state.name # "Dangling")]_vars

\* C39 as long as start_service has spawned one thread only.
C39_FirstStart ==
    [][(Len(mdns'.mailbox) < Len(mdns.mailbox) /\ Len(mdns.threads) = 1)
          => (mdns.state.name = "Starting" /\ mdns'.state.name # "Dangling")]_vars

\* C40: base.len of a coalesced table equals the number of nodes of its
\* table whose operation is Insert.
C40_BaseLen ==
    \A r \in Replicas :
        cdata[r].base_len = Cardinality(InsertNodes(cdata[r].nodes))

====
